---- MODULE Spec2Model ----
(***************************************************************************)
(* Tool-call orchestration of GLU-BE: the update_conversation turn, the    *)
(* association resolver, setup_tool_client, ToolHttpClient.send_tool_call  *)
(* and the confirm_tool_call endpoint (app/route/message.py,               *)
(* app/client/httpx.py).  Every await of the handlers is one step; what    *)
(* the external services answer is chosen nondeterministically.            *)
(***************************************************************************)
EXTENDS Integers, Sequences, FiniteSets, TLC

\* ------------------------------------------------------------ bounds
\* Hits returned by the turn's search (the code asks for limit=10).
MaxHits == 2
\* Requests served one after the other in one behaviour.
MaxRequests == 1
\* Confirm requests a client sends for the payload it holds.
MaxConfirms == 2

\* ------------------------------------------------- the tool catalog
\* Documents of the "tools" index.  A hit is named by its tool; the name
\* of the function offered to the LLM is the hit's name.
ToolNames == {"list_channels", "post_message", "create_playlist", "add_track"}

NoAction == "absent"
NoHit == "no_hit"
NoTool == "no_tool"

Assoc(p, f) == [parent_tool_name |-> p, field_name |-> f]

\* Documents whose associations name each other and themselves.
FolderNames == {"get_folder", "move_folder"}

Index ==
  [t \in ToolNames \cup FolderNames |->
     CASE t = "list_channels" ->
            [action |-> NoAction, api_name |-> "slack", associations |-> <<>>]
       [] t = "post_message" ->
            [action |-> "WRITE", api_name |-> "slack",
             associations |-> << Assoc("list_channels", "channel"),
                                 Assoc("list_channels", "thread_ts") >>]
       [] t = "create_playlist" ->
            [action |-> "WRITE", api_name |-> "spotify", associations |-> <<>>]
       [] t = "add_track" ->
            [action |-> "READ", api_name |-> "spotify",
             associations |-> << Assoc("create_playlist", "playlist_id") >>]
       [] t = "get_folder" ->
            [action |-> "READ", api_name |-> "drive",
             associations |-> << Assoc("get_folder", "parent_id"),
                                 Assoc("move_folder", "moved_by") >>]
       [] t = "move_folder" ->
            [action |-> "WRITE", api_name |-> "drive",
             associations |-> << Assoc("get_folder", "folder_id") >>]]

\* Mutant: a hit without an action field counts as WRITE.
HitActionDefaultWrite(t) == IF Index[t].action = NoAction THEN "WRITE" ELSE Index[t].action

\* hit.get("action", "READ")
HitAction(t) == IF Index[t].action = NoAction THEN "READ" ELSE Index[t].action

\* hit.get("associations", [])
Associations(t) == Index[t].associations

\* documents["functions"] of the catalog file {api_name}.json
Catalog(api) == {t \in DOMAIN Index : Index[t].api_name = api}

Min(a, b) == IF a <= b THEN a ELSE b

\* limit=10 of the turn's search
SearchLimit == 10

\* Results of the turn's search: distinct documents, best first.
SearchResultSets ==
  {s \in UNION {[1..n -> ToolNames] : n \in 0..Min(MaxHits, SearchLimit)} :
     \A a, b \in DOMAIN s : a # b => s[a] # s[b]}

\* The integrations of the catalog, and the sets of them a user can have
\* connected (the rows of user_integrations that are not deleted).
Apis == {Index[t].api_name : t \in ToolNames}

ConnectedSets == SUBSET Apis

\* Columns and relationships of a user_integrations row.
UserIntegrationFields ==
  {"id", "integration_id", "clerk_id", "user_id", "integration", "user",
   "messages", "created_at", "updated_at", "deleted"}

\* filters += f"api_name={integration.name}": reading an attribute the row
\* does not have raises AttributeError, for the first row of the loop.
FilterRaises(rows) == rows # {} /\ "name" \notin UserIntegrationFields

\* The filter string, as the set of names it lists; "" is the empty set.
BuildFilters(rows) == rows

\* filter=[filters]: a document matches when its api_name is one of the
\* names; the empty expression restricts nothing.
MatchesFilter(t, f) == f = {} \/ Index[t].api_name \in f

FilteredResultSets(f) ==
  {r \in SearchResultSets : \A k \in DOMAIN r : MatchesFilter(r[k], f)}

\* Results of the turn's search when the index holds the folder documents.
FolderResultSets ==
  {s \in UNION {[1..n -> FolderNames] : n \in 1..Min(MaxHits, SearchLimit)} :
     \A a, b \in DOMAIN s : a # b => s[a] # s[b]}

\* Result of the resolver's search(query=parent_tool_name, limit=1): the
\* document of that name, or nothing.
ParentSearchResults(p) == {NoHit} \cup {t \in DOMAIN Index : t = p}

\* ------------------------------------------------------- messages
Msg(role, kind) == [role |-> role, kind |-> kind]

UserInput == Msg("user", "user_input")
SummaryInstruction == Msg("user", "summary_instruction")
AssistantToolCall == Msg("assistant", "tool_call")
ToolResultMsg == Msg("tool", "tool_result")
AssistantResultText == Msg("assistant", "result_text")
AssocResult == Msg("assistant", "association_result")
NoRoleMsg == Msg("absent", "user_input")

\* The messages a client may send to confirm_tool_call.
ConfirmMessages == { <<>>, <<NoRoleMsg>>, <<UserInput>> }

\* ------------------------------------------- outcomes of the services
SetupOutcomes == {"ok", "no_token", "catalog_missing", "clerk_error"}
HttpCodes == {"2xx", "non2xx"}
HttpBodies == {"json", "empty", "garbage"}
NoHttp == [code |-> "none", body |-> "none"]
NoResult == [status |-> "none", message |-> "none"]
NoResponse == [kind |-> "none", status |-> 0]
NoRequest == [tool_hit |-> NoHit, tool_name |-> NoTool, messages |-> <<>>]
NoPayload == [tool_hit |-> NoHit, tool_name |-> NoTool, messages |-> <<>>]

VARIABLES
  pc,              \* position of the handler serving the current request
  handler,         \* "none", "update" or "confirm"
  reqNo,           \* requests started so far
  request,         \* the request's body
  hits,            \* results.hits of the turn's search
  i, j,            \* position of the loops over hits and associations
  write_tools,     \* names of the WRITE hits seen so far
  completed_tools, \* parents already resolved in this turn
  messages,        \* the conversation built by the handler
  chosen,          \* name of the tool call the LLM returned
  parentHit,       \* hit the resolver found for the parent
  tool_result,     \* what send_tool_call returned, sanitized
  lastHttp,        \* the HTTP response send_tool_call last received
  response,        \* what the handler answered
  calls,           \* calls made and exceptions raised in this request, in order
  setups,          \* setup_tool_client calls of this request, in order
  resolverCalls,   \* parents process_association_tool_call was called for
  confirmReceived, \* tools named by the confirm requests received so far
  integrations,    \* rows get_by_user_id returned to the turn
  filters,         \* the filter the turn's search is given
  held,            \* the verification payload the client holds
  heldExecutions,  \* requests sent to the tool for the held payload
  schemaRun,       \* a parameter schema and what ensure_schema_defaults makes of it
  cleanRun,        \* a tool result and what clean_tool_result returns for it
  sendRun,         \* tool arguments and the request send_tool_call builds
  http_clients,    \* the HttpClient objects constructed so far
  transports,      \* the httpx.AsyncClient objects constructed so far
  tasks,           \* the coroutines that call get_client
  managers,        \* the dependency managers of the process
  syncRun,         \* a user's integrations and what sync_integrations makes of them
  turns            \* turns of different users that run concurrently

vars == << pc, handler, reqNo, request, hits, i, j, write_tools,
           completed_tools, messages, chosen, parentHit, tool_result,
           lastHttp, response, calls, setups, resolverCalls, confirmReceived,
           integrations, filters, held, heldExecutions, schemaRun, cleanRun,
           sendRun, http_clients, transports, tasks, managers, syncRun,
           turns >>

filterVars == << integrations, filters >>
clientVars == << held, heldExecutions >>
poolVars == << http_clients, transports, tasks >>
serviceVars == << managers, syncRun, turns >>
pureVars == << schemaRun, cleanRun, sendRun, poolVars, serviceVars >>

turnVars == << hits, i, j, write_tools, completed_tools, chosen, parentHit >>

\* The singletons db_manager, meilisearch_manager and openai_manager.
ManagerKinds == {"database", "meilisearch", "openai"}

\* __init__ of a manager: no engine, no client, no session maker.  `ready`
\* tells that a call of init has returned without raising and that close
\* has not been called since; `got` is what the accessor last did.
ManagerNew ==
  [engine |-> FALSE, handle |-> FALSE, pc |-> "idle", ready |-> FALSE,
   got |-> "none", gotReady |-> FALSE]

\* Coroutines of the event loop that use the tool invoker's HTTP client.
Tasks == {"task_a", "task_b", "task_c"}

Call(kind, phase, tool) == [kind |-> kind, phase |-> phase, tool |-> tool]
Setup(phase, hit, outcome) == [phase |-> phase, hit |-> hit, outcome |-> outcome]

\* The server before its first request; the client holds no payload.
ServerIdle ==
  /\ pc = "idle"
  /\ handler = "none"
  /\ reqNo = 0
  /\ request = NoRequest
  /\ hits = <<>>
  /\ i = 1
  /\ j = 1
  /\ write_tools = {}
  /\ completed_tools = {}
  /\ messages = <<>>
  /\ chosen = NoTool
  /\ parentHit = NoHit
  /\ tool_result = NoResult
  /\ lastHttp = NoHttp
  /\ response = NoResponse
  /\ calls = <<>>
  /\ setups = <<>>
  /\ resolverCalls = <<>>
  /\ confirmReceived = {}
  /\ integrations = {}
  /\ filters = {}
  /\ held = NoPayload
  /\ heldExecutions = 0
  /\ transports = <<>>
  /\ tasks = [t \in Tasks |-> [pc |-> "idle", inst |-> 0]]
  /\ managers = [k \in ManagerKinds |-> ManagerNew]
  /\ syncRun = <<>>
  /\ turns = <<>>

Init ==
  /\ ServerIdle
  /\ http_clients = <<>>
  /\ schemaRun = <<>>
  /\ cleanRun = <<>>
  /\ sendRun = <<>>

\* A request starts with the handler's locals fresh.
FreshRequest ==
  /\ hits' = <<>>
  /\ i' = 1
  /\ j' = 1
  /\ write_tools' = {}
  /\ completed_tools' = {}
  /\ chosen' = NoTool
  /\ parentHit' = NoHit
  /\ tool_result' = NoResult
  /\ lastHttp' = NoHttp
  /\ calls' = <<>>
  /\ setups' = <<>>
  /\ resolverCalls' = <<>>
  /\ integrations' = {}
  /\ filters' = {}

\* The handler answers and the request ends.
Respond(kind, status) ==
  /\ response' = [kind |-> kind, status |-> status]
  /\ pc' = "idle"

\* except Exception -> HTTPException(500) around the update_conversation turn
Fail500 == Respond("http_error", 500)


\* ------------------------------------- ToolHttpClient.send_tool_call
\* Mutant: every response is wrapped, a parsed 2xx body as the payload of a
\* success envelope and every parse failure as an error.
ResponseEnvelopeUniform(code, body) ==
  IF body = "json" /\ code = "2xx"
    THEN [status |-> "success", message |-> "response_data"]
    ELSE [status |-> "error", message |-> "response_text"]

\* What send_tool_call returns for the response it received.
ResponseEnvelope(code, body) ==
  IF body = "json"
    THEN IF code = "2xx"
           THEN [status |-> "as_body", message |-> "response_data"]
           ELSE [status |-> "error", message |-> "response_text"]
    ELSE IF code = "2xx"
           THEN [status |-> "success", message |-> "empty response"]
           ELSE [status |-> "error", message |-> "Invalid JSON response"]

SendOutcome(raised, http, result) ==
  [raised |-> raised, http |-> http, result |-> result]

\* Mutant: response.raise_for_status() before the body is read.
SendOutcomesRaiseForStatus(api, tool) ==
  IF tool \notin Catalog(api)
    THEN {SendOutcome("unknown_tool", NoHttp, NoResult)}
    ELSE {SendOutcome("unreachable", NoHttp, NoResult)}
         \cup {SendOutcome("none", [code |-> "2xx", body |-> b], ResponseEnvelope("2xx", b)) :
                 b \in HttpBodies}
         \cup {SendOutcome("unreachable", [code |-> "non2xx", body |-> b], NoResult) :
                 b \in HttpBodies}
         \cup {SendOutcome("sanitize_error", [code |-> "2xx", body |-> "json"], NoResult)}

\* The ways send_tool_call followed by clean_tool_result can end for a
\* client built from the catalog of `api`: the tool is not in the catalog
\* (ValueError, no request sent), the request does not get through, the
\* response is turned into a result, or sanitizing the result raises.
SendOutcomes(api, tool) ==
  IF tool \notin Catalog(api)
    THEN {SendOutcome("unknown_tool", NoHttp, NoResult)}
    ELSE {SendOutcome("unreachable", NoHttp, NoResult)}
         \cup {SendOutcome("none", [code |-> c, body |-> b], ResponseEnvelope(c, b)) :
                 c \in HttpCodes, b \in HttpBodies}
         \cup {SendOutcome("sanitize_error", [code |-> "2xx", body |-> "json"], NoResult)}

\* What one send_tool_call (with the sanitizing of its result) leaves in
\* the request's log: the call itself, the HTTP request if one is sent, and
\* the exception if one is raised.
RaiseKinds == {"unknown_tool", "unreachable", "sanitize_error"}

ToolRequests(phase, tool, o) ==
  << Call("send_tool_call", phase, tool) >>
  \o (IF o.raised = "unknown_tool" THEN <<>> ELSE << Call("tool_http", phase, tool) >>)
  \o (IF o.raised = "none" THEN <<>> ELSE << Call(o.raised, phase, tool) >>)

\* The external calls of setup_tool_client: the catalog file is read first,
\* then the identity provider is asked for the token.
SetupRequests(phase, hit, o) ==
  IF o = "catalog_missing" THEN <<>> ELSE << Call("clerk", phase, hit) >>

\* ------------------------------------------------ update_conversation
StartUpdateEmpty ==
  /\ pc = "idle"
  /\ reqNo < MaxRequests
  /\ reqNo' = reqNo + 1
  /\ handler' = "update"
  /\ request' = NoRequest
  /\ FreshRequest
  /\ messages' = <<>>
  /\ Respond("http_error", 400)
  /\ UNCHANGED confirmReceived
  /\ held' = NoPayload
  /\ heldExecutions' = 0
  /\ UNCHANGED pureVars

StartUpdate ==
  /\ pc = "idle"
  /\ reqNo < MaxRequests
  /\ reqNo' = reqNo + 1
  /\ handler' = "update"
  /\ request' = [NoRequest EXCEPT !.messages = <<UserInput>>]
  /\ FreshRequest
  /\ messages' = <<>>
  /\ response' = NoResponse
  /\ pc' = "u_integrations"
  /\ UNCHANGED confirmReceived
  /\ held' = NoPayload
  /\ heldExecutions' = 0
  /\ UNCHANGED pureVars

\* One external call of the turn that either returns or raises into the
\* handler's except Exception.
ExternalStep(at, kind, next) ==
  /\ pc = at
  /\ calls' = Append(calls, Call(kind, "main", NoTool))
  /\ \E ok \in BOOLEAN :
       IF ok THEN pc' = next /\ UNCHANGED response ELSE Fail500
  /\ UNCHANGED << handler, reqNo, request, turnVars, messages, tool_result,
                  lastHttp, setups, resolverCalls, confirmReceived >>
  /\ UNCHANGED << filterVars, clientVars, pureVars >>

\* integrations = await UserIntegrationService.get_by_user_id(db, user_id),
\* then the filter string is built from the rows.
GetIntegrations ==
  /\ pc = "u_integrations"
  /\ \/ /\ calls' = Append(calls, Call("db", "main", NoTool))
        /\ Fail500
        /\ UNCHANGED filterVars
     \/ \E rows \in ConnectedSets :
          /\ integrations' = rows
          /\ IF FilterRaises(rows)
               THEN /\ calls' = calls \o << Call("db", "main", NoTool),
                                            Call("attribute_error", "main", NoTool) >>
                    /\ Fail500
                    /\ UNCHANGED filters
               ELSE /\ calls' = Append(calls, Call("db", "main", NoTool))
                    /\ filters' = BuildFilters(rows)
                    /\ pc' = "u_embed"
                    /\ UNCHANGED response
  /\ UNCHANGED << handler, reqNo, request, turnVars, messages, tool_result,
                  lastHttp, setups, resolverCalls, confirmReceived >>
  /\ UNCHANGED << clientVars, pureVars >>

Embed == ExternalStep("u_embed", "embedding", "u_search")

\* results = await meilisearch_client.search(...), over the result sets
\* the index can give.
SearchOver(results) ==
  /\ pc = "u_search"
  /\ calls' = Append(calls, Call("search", "main", NoTool))
  /\ \/ /\ \E r \in results : hits' = r
        /\ i' = 1
        /\ pc' = "u_hit"
        /\ UNCHANGED response
     \/ /\ Fail500
        /\ UNCHANGED << hits, i >>
  /\ UNCHANGED << handler, reqNo, request, j, write_tools, completed_tools,
                  chosen, parentHit, messages, tool_result, lastHttp, setups,
                  resolverCalls, confirmReceived >>
  /\ UNCHANGED << filterVars, clientVars, pureVars >>

Search == SearchOver(FilteredResultSets(filters))

\* for hit in results.hits: the hit is classified
ClassifyHit ==
  /\ pc = "u_hit"
  /\ i <= Len(hits)
  /\ write_tools' = IF HitAction(hits[i]) = "WRITE"
                      THEN write_tools \cup {hits[i]}
                      ELSE write_tools
  /\ j' = 1
  /\ pc' = "u_assoc"
  /\ UNCHANGED << handler, reqNo, request, hits, i, completed_tools, chosen,
                  parentHit, messages, tool_result, lastHttp, response, calls,
                  setups, resolverCalls, confirmReceived >>
  /\ UNCHANGED << filterVars, clientVars, pureVars >>

CurrentParent == Associations(hits[i])[j].parent_tool_name

\* if parent_tool_name not in completed_tools
AlreadyResolved(p, done) == p \in done

AssocsDone ==
  /\ pc = "u_assoc"
  /\ j > Len(Associations(hits[i]))
  /\ i' = i + 1
  /\ pc' = "u_hit"
  /\ UNCHANGED << handler, reqNo, request, hits, j, write_tools,
                  completed_tools, chosen, parentHit, messages, tool_result,
                  lastHttp, response, calls, setups, resolverCalls,
                  confirmReceived >>
  /\ UNCHANGED << filterVars, clientVars, pureVars >>

AssocSkip ==
  /\ pc = "u_assoc"
  /\ j <= Len(Associations(hits[i]))
  /\ AlreadyResolved(CurrentParent, completed_tools)
  /\ j' = j + 1
  /\ UNCHANGED << pc, handler, reqNo, request, hits, i, write_tools,
                  completed_tools, chosen, parentHit, messages, tool_result,
                  lastHttp, response, calls, setups, resolverCalls,
                  confirmReceived >>
  /\ UNCHANGED << filterVars, clientVars, pureVars >>

AssocCall ==
  /\ pc = "u_assoc"
  /\ j <= Len(Associations(hits[i]))
  /\ ~AlreadyResolved(CurrentParent, completed_tools)
  /\ resolverCalls' = Append(resolverCalls, CurrentParent)
  /\ pc' = "r_search"
  /\ UNCHANGED << handler, reqNo, request, turnVars, messages, tool_result,
                  lastHttp, response, calls, setups, confirmReceived >>
  /\ UNCHANGED << filterVars, clientVars, pureVars >>

\* ------------------------------------- process_association_tool_call
\* The resolver is left (it returned None, returned a message, or raised an
\* HTTPException that the loop logs) and the loop goes on to the next
\* association.
\* Mutant: the loop stays on the association it just tried.
BackToLoopRepeats ==
  /\ j' = j
  /\ pc' = "u_assoc"
  /\ UNCHANGED response

BackToLoop ==
  /\ j' = j + 1
  /\ pc' = "u_assoc"
  /\ UNCHANGED response

\* results = await meilisearch_client.search(query=parent_tool_name, limit=1)
ResolverSearch ==
  /\ pc = "r_search"
  /\ calls' = Append(calls, Call("search", "assoc", CurrentParent))
  /\ \/ \E r \in ParentSearchResults(CurrentParent) :
          /\ parentHit' = r
          /\ IF r = NoHit
               THEN BackToLoop
               ELSE pc' = "r_llm" /\ UNCHANGED << j, response >>
     \/ /\ Fail500
        /\ UNCHANGED << j, parentHit >>
  /\ UNCHANGED << handler, reqNo, request, hits, i, write_tools,
                  completed_tools, chosen, messages, tool_result, lastHttp,
                  setups, resolverCalls, confirmReceived >>
  /\ UNCHANGED << filterVars, clientVars, pureVars >>

\* Mutant: the parent is memoized although the LLM declined (the append is
\* outside the test of the message).
ResolverLlmDeclineMemoizes ==
  /\ pc = "r_llm"
  /\ calls' = Append(calls, Call("llm", "assoc", parentHit))
  /\ \/ pc' = "r_setup" /\ UNCHANGED << j, response, completed_tools >>
     \/ BackToLoop /\ completed_tools' = completed_tools \cup {CurrentParent}
     \/ Fail500 /\ UNCHANGED << j, completed_tools >>
  /\ UNCHANGED << handler, reqNo, request, hits, i, write_tools,
                  chosen, parentHit, messages, tool_result,
                  lastHttp, setups, resolverCalls, confirmReceived >>
  /\ UNCHANGED << filterVars, clientVars, pureVars >>

\* The sub-turn: the LLM is offered the parent hit's function.
ResolverLlm ==
  /\ pc = "r_llm"
  /\ calls' = Append(calls, Call("llm", "assoc", parentHit))
  /\ \/ pc' = "r_setup" /\ UNCHANGED << j, response >>
     \/ BackToLoop
     \/ Fail500 /\ UNCHANGED j
  /\ UNCHANGED << handler, reqNo, request, hits, i, write_tools,
                  completed_tools, chosen, parentHit, messages, tool_result,
                  lastHttp, setups, resolverCalls, confirmReceived >>
  /\ UNCHANGED << filterVars, clientVars, pureVars >>

\* tool_client = await setup_tool_client(user_id, results.hits[0]); the
\* HTTPException(401) of an empty token list is caught by the loop's
\* except HTTPException, everything else by the handler's except Exception.
ResolverSetup ==
  /\ pc = "r_setup"
  /\ \E o \in SetupOutcomes :
       /\ setups' = Append(setups, Setup("assoc", parentHit, o))
       /\ calls' = calls \o SetupRequests("assoc", parentHit, o)
       /\ CASE o = "ok" -> pc' = "r_send" /\ UNCHANGED << j, response >>
            [] o = "no_token" -> BackToLoop
            [] OTHER -> Fail500 /\ UNCHANGED j
  /\ UNCHANGED << handler, reqNo, request, hits, i, write_tools,
                  completed_tools, chosen, parentHit, messages, tool_result,
                  lastHttp, resolverCalls, confirmReceived >>
  /\ UNCHANGED << filterVars, clientVars, pureVars >>

\* send_tool_call and clean_tool_result returned: the message is appended
\* and the parent is memoized.
ResolverSendReturns ==
  /\ pc = "r_send"
  /\ \E o \in SendOutcomes(Index[parentHit].api_name, parentHit) :
       /\ o.raised = "none"
       /\ calls' = calls \o ToolRequests("assoc", parentHit, o)
  /\ messages' = Append(messages, AssocResult)
  /\ completed_tools' = completed_tools \cup {CurrentParent}
  /\ BackToLoop
  /\ UNCHANGED << handler, reqNo, request, hits, i, write_tools, chosen,
                  parentHit, tool_result, lastHttp, setups, resolverCalls,
                  confirmReceived >>
  /\ UNCHANGED << filterVars, clientVars, pureVars >>

\* send_tool_call or clean_tool_result raised: the resolver raises
\* HTTPException(500), which the loop logs.
ResolverSendRaises ==
  /\ pc = "r_send"
  /\ \E o \in SendOutcomes(Index[parentHit].api_name, parentHit) :
       /\ o.raised # "none"
       /\ calls' = calls \o ToolRequests("assoc", parentHit, o)
  /\ BackToLoop
  /\ UNCHANGED << handler, reqNo, request, hits, i, write_tools,
                  completed_tools, chosen, parentHit, messages, tool_result,
                  lastHttp, setups, resolverCalls, confirmReceived >>
  /\ UNCHANGED << filterVars, clientVars, pureVars >>

\* ------------------------------- update_conversation, after the loop
\* tool_list = prepare_tool_list(results.hits); the user message is appended
PrepareOffer ==
  /\ pc = "u_hit"
  /\ i > Len(hits)
  /\ messages' = Append(messages, UserInput)
  /\ pc' = "u_offer"
  /\ UNCHANGED << handler, reqNo, request, turnVars, tool_result, lastHttp,
                  response, calls, setups, resolverCalls, confirmReceived >>
  /\ UNCHANGED << filterVars, clientVars, pureVars >>

Range(s) == {s[k] : k \in DOMAIN s}

\* Mutant: a failed tool-offer call is made a second time before the turn
\* gives up.
OfferFailsRetriedOnce ==
  /\ pc = "u_offer"
  /\ calls' = Append(calls, Call("llm", "offer", NoTool))
  /\ IF \E k \in DOMAIN calls : calls[k] = Call("llm", "offer", NoTool)
       THEN Fail500
       ELSE UNCHANGED << pc, response >>
  /\ UNCHANGED << handler, reqNo, request, turnVars, messages, tool_result,
                  lastHttp, setups, resolverCalls, confirmReceived >>
  /\ UNCHANGED << filterVars, clientVars, pureVars >>

\* The tool-offer LLM call raises, or returns no choices.
OfferFails ==
  /\ pc = "u_offer"
  /\ calls' = Append(calls, Call("llm", "offer", NoTool))
  /\ Fail500
  /\ UNCHANGED << handler, reqNo, request, turnVars, messages, tool_result,
                  lastHttp, setups, resolverCalls, confirmReceived >>
  /\ UNCHANGED << filterVars, clientVars, pureVars >>

\* Mutant: the answer without a tool call is passed on to the summarization.
OfferNoToolSummarizes ==
  /\ pc = "u_offer"
  /\ calls' = Append(calls, Call("llm", "offer", NoTool))
  /\ pc' = "u_summarize"
  /\ UNCHANGED << handler, reqNo, request, turnVars, messages, tool_result,
                  lastHttp, response, setups, resolverCalls, confirmReceived >>
  /\ UNCHANGED << filterVars, clientVars, pureVars >>

\* The LLM answers without a tool call: its response is returned.
OfferNoTool ==
  /\ pc = "u_offer"
  /\ calls' = Append(calls, Call("llm", "offer", NoTool))
  /\ Respond("completion", 200)
  /\ UNCHANGED << handler, reqNo, request, turnVars, messages, tool_result,
                  lastHttp, setups, resolverCalls, confirmReceived >>
  /\ UNCHANGED << filterVars, clientVars, pureVars >>

\* The LLM calls one of the tools it was offered.
OfferTool ==
  /\ pc = "u_offer"
  /\ calls' = Append(calls, Call("llm", "offer", NoTool))
  /\ \E n \in Range(hits) : chosen' = n
  /\ pc' = "u_gate"
  /\ UNCHANGED << handler, reqNo, request, hits, i, j, write_tools,
                  completed_tools, parentHit, messages, tool_result, lastHttp,
                  response, setups, resolverCalls, confirmReceived >>
  /\ UNCHANGED << filterVars, clientVars, pureVars >>

\* Mutant: WRITE_FLAG is never set.
WriteFlagNeverSet(name, wt) == FALSE

\* Mutant: the gate tests the WRITE set for being non-empty (if write_tools:).
WriteFlagAnyWrite(name, wt) == wt # {}

\* if response.choices[0].message.tool_calls[0].function.name in write_tools
WriteFlag(name, wt) == name \in wt

\* The content of the verification_required response: the chosen call, the
\* first hit of the search and the messages built so far.
VerificationPayload(h, name, msgs) ==
  [tool_hit |-> h[1], tool_name |-> name, messages |-> msgs]

\* if WRITE_FLAG: return JSONResponse(verification_required ...)
ReturnVerification ==
  /\ pc = "u_gate"
  /\ WriteFlag(chosen, write_tools)
  /\ Respond("verification", 200)
  /\ held' = VerificationPayload(hits, chosen, messages)
  /\ heldExecutions' = 0
  /\ UNCHANGED << handler, reqNo, request, turnVars, messages, tool_result,
                  lastHttp, calls, setups, resolverCalls, confirmReceived >>
  /\ UNCHANGED << filterVars, pureVars >>

\* Status the caller of update_conversation sees when setup_tool_client
\* raises: the HTTPException(401) too is caught by except Exception.
UpdateSetupFailure(o) == 500

\* Mutant: the tool client is built from the hit that defines the chosen
\* tool.
UpdateSetupChosenHit ==
  /\ pc = "u_gate"
  /\ ~WriteFlag(chosen, write_tools)
  /\ \E o \in SetupOutcomes :
       /\ setups' = Append(setups, Setup("main", chosen, o))
       /\ calls' = calls \o SetupRequests("main", chosen, o)
       /\ IF o = "ok"
            THEN pc' = "u_send" /\ UNCHANGED response
            ELSE Respond("http_error", UpdateSetupFailure(o))
  /\ UNCHANGED << handler, reqNo, request, turnVars, messages, tool_result,
                  lastHttp, resolverCalls, confirmReceived >>
  /\ UNCHANGED << filterVars, clientVars, pureVars >>

\* tool_client = await setup_tool_client(user_id, results.hits[0])
UpdateSetup ==
  /\ pc = "u_gate"
  /\ ~WriteFlag(chosen, write_tools)
  /\ \E o \in SetupOutcomes :
       /\ setups' = Append(setups, Setup("main", hits[1], o))
       /\ calls' = calls \o SetupRequests("main", hits[1], o)
       /\ IF o = "ok"
            THEN pc' = "u_send" /\ UNCHANGED response
            ELSE Respond("http_error", UpdateSetupFailure(o))
  /\ UNCHANGED << handler, reqNo, request, turnVars, messages, tool_result,
                  lastHttp, resolverCalls, confirmReceived >>
  /\ UNCHANGED << filterVars, clientVars, pureVars >>

\* send_tool_call and clean_tool_result returned: assistant tool call, tool
\* result and the summarization instruction are appended.
UpdateSendReturns ==
  /\ pc = "u_send"
  /\ \E o \in SendOutcomes(Index[hits[1]].api_name, chosen) :
       /\ o.raised = "none"
       /\ calls' = calls \o ToolRequests("main", chosen, o)
       /\ lastHttp' = o.http
       /\ tool_result' = o.result
  /\ messages' = messages \o << AssistantToolCall, ToolResultMsg, SummaryInstruction >>
  /\ pc' = "u_summarize"
  /\ UNCHANGED << handler, reqNo, request, turnVars, response, setups,
                  resolverCalls, confirmReceived >>
  /\ UNCHANGED << filterVars, clientVars, pureVars >>

\* Mutant: no try/except around the invocation; the exception reaches the
\* handler's except Exception.
UpdateSendRaisesUncaught ==
  /\ pc = "u_send"
  /\ \E o \in SendOutcomes(Index[hits[1]].api_name, chosen) :
       /\ o.raised # "none"
       /\ calls' = calls \o ToolRequests("main", chosen, o)
       /\ lastHttp' = o.http
  /\ Fail500
  /\ UNCHANGED << handler, reqNo, request, turnVars, messages, tool_result,
                  setups, resolverCalls, confirmReceived >>
  /\ UNCHANGED << filterVars, clientVars, pureVars >>

\* Mutant: the invocation failure is logged and the turn goes on to the
\* summarization call.
UpdateSendRaisesIgnored ==
  /\ pc = "u_send"
  /\ \E o \in SendOutcomes(Index[hits[1]].api_name, chosen) :
       /\ o.raised # "none"
       /\ calls' = calls \o ToolRequests("main", chosen, o)
       /\ lastHttp' = o.http
  /\ pc' = "u_summarize"
  /\ UNCHANGED << handler, reqNo, request, turnVars, messages, tool_result,
                  response, setups, resolverCalls, confirmReceived >>
  /\ UNCHANGED << filterVars, clientVars, pureVars >>

\* except Exception: return ChatCompletion(... "Failed to execute tool" ...)
UpdateSendRaises ==
  /\ pc = "u_send"
  /\ \E o \in SendOutcomes(Index[hits[1]].api_name, chosen) :
       /\ o.raised # "none"
       /\ calls' = calls \o ToolRequests("main", chosen, o)
       /\ lastHttp' = o.http
  /\ Respond("error_completion", 200)
  /\ UNCHANGED << handler, reqNo, request, turnVars, messages, tool_result,
                  setups, resolverCalls, confirmReceived >>
  /\ UNCHANGED << filterVars, clientVars, pureVars >>

\* response = await openai_client.beta.chat.completions.parse(...)
UpdateSummarize ==
  /\ pc = "u_summarize"
  /\ calls' = Append(calls, Call("llm", "summary", NoTool))
  /\ \/ Respond("summary", 200)
     \/ Fail500
  /\ UNCHANGED << handler, reqNo, request, turnVars, messages, tool_result,
                  lastHttp, setups, resolverCalls, confirmReceived >>
  /\ UNCHANGED << filterVars, clientVars, pureVars >>

\* -------------------------------------------------- confirm_tool_call
\* A confirm request arrives: the body names a hit, a tool and carries the
\* conversation; nothing of it is checked against an earlier turn.
ReceiveConfirm(h, t, m) ==
  /\ pc = "idle"
  /\ reqNo' = reqNo + 1
  /\ handler' = "confirm"
  /\ request' = [tool_hit |-> h, tool_name |-> t, messages |-> m]
  /\ messages' = m
  /\ confirmReceived' = confirmReceived \cup {t}
  /\ FreshRequest
  /\ response' = NoResponse
  /\ pc' = "c_setup"
  /\ UNCHANGED pureVars

StartConfirm ==
  /\ reqNo < MaxRequests
  /\ \E h \in ToolNames, t \in ToolNames, m \in ConfirmMessages :
       ReceiveConfirm(h, t, m)
  /\ UNCHANGED clientVars

\* Keys of the verification_required response, and the fields a
\* ConfirmToolCallRequest must have.
VerificationKeys == {"verification_required", "tool_call", "tool_hit", "message"}

ConfirmRequestFields == {"tool_hit", "tool_call", "updated_arguments", "messages"}

\* Request validation: every required field of the model is in the body.
Validates(keys) == ConfirmRequestFields \subseteq keys

\* The client sends the verification_required response it holds as the body
\* of a confirm_tool_call request, as it is.
ConfirmVerbatim ==
  /\ pc = "idle"
  /\ held # NoPayload
  /\ reqNo < 1 + MaxConfirms
  /\ reqNo' = reqNo + 1
  /\ handler' = "confirm"
  /\ request' = held
  /\ messages' = held.messages
  /\ FreshRequest
  /\ IF Validates(VerificationKeys)
       THEN /\ response' = NoResponse
            /\ pc' = "c_setup"
            /\ confirmReceived' = confirmReceived \cup {held.tool_name}
       ELSE /\ Respond("http_error", 422)
            /\ UNCHANGED confirmReceived
  /\ UNCHANGED << clientVars, pureVars >>

\* The client sends what it holds in the fields of the request model:
\* tool_call and tool_hit as received, the arguments as updated_arguments,
\* the message list as messages.
ConfirmHeld ==
  /\ held # NoPayload
  /\ reqNo < 1 + MaxConfirms
  /\ ReceiveConfirm(held.tool_hit, held.tool_name, held.messages)
  /\ UNCHANGED clientVars

\* The request carries the payload the client holds.
RequestIsHeld == held # NoPayload /\ request = held

\* The tool received the request and answered it.
Executed(o) == o.http # NoHttp

Executions(n, o) == IF RequestIsHeld /\ Executed(o) THEN n + 1 ELSE n

\* What the caller of confirm_tool_call sees when setup_tool_client raises:
\* nothing catches it, so the HTTPException(401) is answered as such and any
\* other exception leaves the handler.
ConfirmSetupFailure(o) ==
  IF o = "no_token"
    THEN [kind |-> "http_error", status |-> 401]
    ELSE [kind |-> "unhandled", status |-> 500]

\* Mutant: the messages of the request are validated before the tool client
\* is built.
ConfirmSetupValidatesFirst ==
  /\ pc = "c_setup"
  /\ IF request.messages = <<>> \/ request.messages[1].role = "absent"
       THEN /\ Respond("http_error", 400)
            /\ UNCHANGED << setups, calls >>
       ELSE \E o \in SetupOutcomes :
              /\ setups' = Append(setups, Setup("confirm", request.tool_hit, o))
              /\ calls' = calls \o SetupRequests("confirm", request.tool_hit, o)
              /\ IF o = "ok"
                   THEN pc' = "c_send" /\ UNCHANGED response
                   ELSE Respond(ConfirmSetupFailure(o).kind, ConfirmSetupFailure(o).status)
  /\ UNCHANGED << handler, reqNo, request, turnVars, messages, tool_result,
                  lastHttp, resolverCalls, confirmReceived >>
  /\ UNCHANGED << filterVars, clientVars, pureVars >>

\* Mutant: the handler looks the request up among the payloads it issued
\* and refuses one it did not issue.
ConfirmSetupChecksIssued ==
  /\ pc = "c_setup"
  /\ IF request # held
       THEN /\ Respond("http_error", 403)
            /\ UNCHANGED << setups, calls >>
       ELSE \E o \in SetupOutcomes :
              /\ setups' = Append(setups, Setup("confirm", request.tool_hit, o))
              /\ calls' = calls \o SetupRequests("confirm", request.tool_hit, o)
              /\ IF o = "ok"
                   THEN pc' = "c_send" /\ UNCHANGED response
                   ELSE Respond(ConfirmSetupFailure(o).kind, ConfirmSetupFailure(o).status)
  /\ UNCHANGED << handler, reqNo, request, turnVars, messages, tool_result,
                  lastHttp, resolverCalls, confirmReceived >>
  /\ UNCHANGED << filterVars, clientVars, pureVars >>

\* tool_client = await setup_tool_client(user_id, request.tool_hit)
ConfirmSetup ==
  /\ pc = "c_setup"
  /\ \E o \in SetupOutcomes :
       /\ setups' = Append(setups, Setup("confirm", request.tool_hit, o))
       /\ calls' = calls \o SetupRequests("confirm", request.tool_hit, o)
       /\ IF o = "ok"
            THEN pc' = "c_send" /\ UNCHANGED response
            ELSE Respond(ConfirmSetupFailure(o).kind, ConfirmSetupFailure(o).status)
  /\ UNCHANGED << handler, reqNo, request, turnVars, messages, tool_result,
                  lastHttp, resolverCalls, confirmReceived >>
  /\ UNCHANGED << filterVars, clientVars, pureVars >>

\* if not messages ...: 400; if "role" not in messages[0]: 400
MessagesValid(m) == m # <<>> /\ m[1].role # "absent"


\* Mutant: the handler remembers the confirmations it executed and refuses
\* one that was executed before, without sending anything.
ConfirmSendReturnsConsumed ==
  /\ pc = "c_send"
  /\ IF RequestIsHeld /\ heldExecutions >= 1
       THEN /\ Respond("http_error", 409)
            /\ UNCHANGED << handler, reqNo, request, turnVars, messages,
                            tool_result, lastHttp, calls, setups, resolverCalls,
                            confirmReceived, filterVars, clientVars, pureVars >>
       ELSE
           /\ \E o \in SendOutcomes(Index[request.tool_hit].api_name, request.tool_name) :
                /\ o.raised = "none"
                /\ calls' = calls \o ToolRequests("confirm", request.tool_name, o)
                /\ lastHttp' = o.http
                /\ tool_result' = o.result
                /\ heldExecutions' = Executions(heldExecutions, o)
           /\ IF MessagesValid(messages)
                THEN /\ messages' = messages \o << AssistantToolCall, ToolResultMsg,
                                                    AssistantResultText, SummaryInstruction >>
                     /\ pc' = "c_summarize"
                     /\ UNCHANGED response
                ELSE /\ Respond("http_error", 400)
                     /\ UNCHANGED messages
           /\ UNCHANGED << handler, reqNo, request, turnVars, setups, resolverCalls,
                           confirmReceived >>
           /\ UNCHANGED << filterVars, held, pureVars >>

\* send_tool_call and clean_tool_result returned; only now the messages of
\* the request are validated, and then extended.
ConfirmSendReturns ==
  /\ pc = "c_send"
  /\ \E o \in SendOutcomes(Index[request.tool_hit].api_name, request.tool_name) :
       /\ o.raised = "none"
       /\ calls' = calls \o ToolRequests("confirm", request.tool_name, o)
       /\ lastHttp' = o.http
       /\ tool_result' = o.result
       /\ heldExecutions' = Executions(heldExecutions, o)
  /\ IF MessagesValid(messages)
       THEN /\ messages' = messages \o << AssistantToolCall, ToolResultMsg,
                                           AssistantResultText, SummaryInstruction >>
            /\ pc' = "c_summarize"
            /\ UNCHANGED response
       ELSE /\ Respond("http_error", 400)
            /\ UNCHANGED messages
  /\ UNCHANGED << handler, reqNo, request, turnVars, setups, resolverCalls,
                  confirmReceived >>
  /\ UNCHANGED << filterVars, held, pureVars >>

\* except Exception: return ChatCompletion(... "Failed to execute tool" ...)
ConfirmSendRaises ==
  /\ pc = "c_send"
  /\ \E o \in SendOutcomes(Index[request.tool_hit].api_name, request.tool_name) :
       /\ o.raised # "none"
       /\ calls' = calls \o ToolRequests("confirm", request.tool_name, o)
       /\ lastHttp' = o.http
       /\ heldExecutions' = Executions(heldExecutions, o)
  /\ Respond("error_completion", 200)
  /\ UNCHANGED << handler, reqNo, request, turnVars, messages, tool_result,
                  setups, resolverCalls, confirmReceived >>
  /\ UNCHANGED << filterVars, held, pureVars >>

\* The summarization call of confirm_tool_call; its failure is a 500.
ConfirmSummarize ==
  /\ pc = "c_summarize"
  /\ calls' = Append(calls, Call("llm", "summary", NoTool))
  /\ \/ Respond("summary", 200)
     \/ Respond("http_error", 500)
  /\ UNCHANGED << handler, reqNo, request, turnVars, messages, tool_result,
                  lastHttp, setups, resolverCalls, confirmReceived >>
  /\ UNCHANGED << filterVars, clientVars, pureVars >>

\* ------------------------------------------------- the specification
Next ==
  \/ StartUpdateEmpty
  \/ StartUpdate
  \/ GetIntegrations
  \/ Embed
  \/ Search
  \/ ClassifyHit
  \/ AssocsDone
  \/ AssocSkip
  \/ AssocCall
  \/ ResolverSearch
  \/ ResolverLlm
  \/ ResolverSetup
  \/ ResolverSendReturns
  \/ ResolverSendRaises
  \/ PrepareOffer
  \/ OfferFails
  \/ OfferNoTool
  \/ OfferTool
  \/ ReturnVerification
  \/ UpdateSetup
  \/ UpdateSendReturns
  \/ UpdateSendRaises
  \/ UpdateSummarize
  \/ StartConfirm
  \/ ConfirmSetup
  \/ ConfirmSendReturns
  \/ ConfirmSendRaises
  \/ ConfirmSummarize

Spec == Init /\ [][Next]_vars

\* One turn, then the client's confirm requests for the payload the turn
\* returned.
FirstTurn == reqNo = 0 /\ StartUpdate

NextRoundTrip ==
  \/ FirstTurn
  \/ GetIntegrations
  \/ Embed
  \/ Search
  \/ ClassifyHit
  \/ AssocsDone
  \/ AssocSkip
  \/ AssocCall
  \/ ResolverSearch
  \/ ResolverLlm
  \/ ResolverSetup
  \/ ResolverSendReturns
  \/ ResolverSendRaises
  \/ PrepareOffer
  \/ OfferFails
  \/ OfferNoTool
  \/ OfferTool
  \/ ReturnVerification
  \/ UpdateSetup
  \/ UpdateSendReturns
  \/ UpdateSendRaises
  \/ UpdateSummarize
  \/ ConfirmVerbatim
  \/ ConfirmHeld
  \/ ConfirmSetup
  \/ ConfirmSendReturns
  \/ ConfirmSendRaises
  \/ ConfirmSummarize

SpecRoundTrip == Init /\ [][NextRoundTrip]_vars

\* ---------------------------------------------------------- properties
Answered == pc = "idle" /\ reqNo > 0

Logged(kinds, phases) ==
  {k \in DOMAIN calls : calls[k].kind \in kinds /\ calls[k].phase \in phases}

SetupsIn(phases) == {k \in DOMAIN setups : setups[k].phase \in phases}

WasChosen == handler = "update" /\ chosen # NoTool

\* C1: when the tool call chosen by the tool-offer LLM call names a tool of
\* the turn's WRITE set, update_conversation answers verification_required
\* and stops: it does not go on to build the tool client of the chosen call,
\* sends no request for it and makes no summarization call.
C1_WriteChoiceStops ==
  (WasChosen /\ chosen \in write_tools) =>
     /\ pc \in {"u_gate", "idle"}
     /\ pc = "idle" => response = [kind |-> "verification", status |-> 200]
     /\ SetupsIn({"main"}) = {}
     /\ Logged({"send_tool_call", "tool_http"}, {"main"}) = {}
     /\ Logged({"llm"}, {"summary"}) = {}

C1_Witness ==
  /\ Answered
  /\ WasChosen
  /\ chosen \in write_tools
  /\ response.kind = "verification"
  /\ Logged({"tool_http"}, {"assoc"}) # {}

\* C2: during an update_conversation turn no HTTP request goes out to a
\* tool whose catalog action is WRITE, on any path of the turn, before a
\* confirm_tool_call request for that tool has been received.
C2_NoWriteBeforeConfirm ==
  \A k \in Logged({"tool_http"}, {"assoc", "main"}) :
     HitAction(calls[k].tool) = "WRITE" => calls[k].tool \in confirmReceived

\* C3, as claimed: a chosen tool that is not in the WRITE set is invoked
\* (setup_tool_client, then send_tool_call) within the same request.
C3_ReadAlwaysInvoked ==
  (Answered /\ WasChosen /\ chosen \notin write_tools) =>
     /\ response.kind # "verification"
     /\ SetupsIn({"main"}) # {}
     /\ \E k \in Logged({"send_tool_call"}, {"main"}) : calls[k].tool = chosen

\* C3, amended: a chosen tool that is not in the WRITE set is never answered
\* with verification_required; setup_tool_client is called once, for the
\* first hit, in the same request, and send_tool_call is called for the
\* chosen tool exactly when setup_tool_client succeeded.
C3_ReadInvokedIfSetupSucceeds ==
  (Answered /\ WasChosen /\ chosen \notin write_tools) =>
     /\ response.kind # "verification"
     /\ \E k \in DOMAIN setups :
          /\ SetupsIn({"main"}) = {k}
          /\ setups[k].hit = hits[1]
          /\ (setups[k].outcome = "ok") <=>
               (\E c \in Logged({"send_tool_call"}, {"main"}) : calls[c].tool = chosen)

C3_Witness ==
  /\ Answered
  /\ WasChosen
  /\ chosen \notin write_tools
  /\ confirmReceived = {}
  /\ \E c \in Logged({"tool_http"}, {"main"}) : calls[c].tool = chosen

\* C4: in every update_conversation turn process_association_tool_call is
\* called at most once for each distinct parent_tool_name.
C4_ResolverOncePerParent ==
  \A a, b \in DOMAIN resolverCalls :
     resolverCalls[a] = resolverCalls[b] => a = b

\* C5: when the sub-call of the association resolver raises, the turn fails
\* with an HTTP error and does not go on to offer tools to the LLM.
C5_ResolverFailureIsFatal ==
  Logged(RaiseKinds, {"assoc"}) # {} =>
     /\ Logged({"llm"}, {"offer"}) = {}
     /\ Answered => response.kind = "http_error"

\* C6: when the identity provider returns an empty token list to the
\* setup_tool_client of the chosen call, the request fails with status 401
\* and no tool request goes out in it.
C6_NoTokenIs401 ==
  (\E k \in SetupsIn({"main", "confirm"}) : setups[k].outcome = "no_token") =>
     /\ pc = "idle"
     /\ response = [kind |-> "http_error", status |-> 401]
     /\ Logged({"tool_http"}, {"main", "confirm"}) = {}

\* C7: a confirm_tool_call request with an empty messages list is answered
\* with status 400, whatever tool_hit and tool_call it carries.
C7_EmptyMessagesIs400 ==
  (Answered /\ handler = "confirm" /\ request.messages = <<>>) =>
     response = [kind |-> "http_error", status |-> 400]

\* C8: when the invocation of the chosen READ tool raises (send_tool_call or
\* the sanitizing of its result), update_conversation answers a successful
\* chat completion carrying the error text, and makes no summarization call.
C8_InvocationFailureDegrades ==
  (handler = "update" /\ Logged(RaiseKinds, {"main"}) # {}) =>
     /\ pc = "idle"
     /\ response = [kind |-> "error_completion", status |-> 200]
     /\ Logged({"llm"}, {"summary"}) = {}

C8_Witness ==
  /\ handler = "update"
  /\ Logged({"sanitize_error"}, {"main"}) # {}
  /\ response.kind = "error_completion"

\* C9, as claimed: an unknown tool name or a connectivity failure during the
\* tool invocation of a turn is answered as a request failure.
C9_FailureIsRequestFailure ==
  (Answered /\ Logged({"unknown_tool", "unreachable"}, {"main"}) # {}) =>
     /\ response.kind \in {"http_error", "unhandled"}
     /\ response.status >= 400

\* C9, amended: an unknown tool name or a connectivity failure during the
\* invocation of the chosen tool of a turn is caught by the handler and
\* answered with a successful chat completion carrying the error text.
C9_FailureIsDegradedSuccess ==
  Logged({"unknown_tool", "unreachable"}, {"main"}) # {} =>
     /\ Answered
     /\ response = [kind |-> "error_completion", status |-> 200]

C9_Witness ==
  /\ handler = "update"
  /\ Logged({"unknown_tool"}, {"main"}) # {}
  /\ chosen \notin Catalog(Index[hits[1]].api_name)
  /\ response.status = 200

Unparseable(http) == http.body \in {"empty", "garbage"}

DataLevelFailure ==
  /\ handler = "update"
  /\ lastHttp # NoHttp
  /\ lastHttp.code = "non2xx" \/ Unparseable(lastHttp)

TurnContinues ==
  /\ Logged(RaiseKinds, {"main"}) = {}
  /\ \E k \in DOMAIN messages : messages[k] = ToolResultMsg
  /\ pc = "u_summarize" \/ Logged({"llm"}, {"summary"}) # {}

C14_OfferedToolsAreConnected ==
  (handler = "update" /\ Logged({"llm"}, {"offer"}) # {}) =>
     /\ \A k \in DOMAIN hits : Index[hits[k]].api_name \in integrations
     /\ Len(hits) <= SearchLimit

ConfirmSetUp == \E k \in SetupsIn({"confirm"}) : setups[k].outcome = "ok"

\* C12, as claimed: one issued confirmation leads to at most one execution
\* of the write; a second confirm_tool_call request carrying the same
\* payload makes no second outbound call.
C12_AtMostOneExecution == heldExecutions <= 1

\* C12, amended: a verification payload is issued only for a chosen WRITE
\* tool, and confirm_tool_call does not consume it: every confirm request
\* carrying the payload, whose tool client was set up and whose tool is in
\* the catalog of the payload's tool_hit, sends its own request to the
\* tool, whether or not the payload was executed before.
C12_EveryConfirmExecutes ==
  /\ held # NoPayload => HitAction(held.tool_name) = "WRITE"
  /\ ( /\ handler = "confirm"
       /\ RequestIsHeld
       /\ ConfirmSetUp
       /\ pc # "c_send"
       /\ held.tool_name \in Catalog(Index[held.tool_hit].api_name) ) =>
        \E k \in Logged({"tool_http"}, {"confirm"}) : calls[k].tool = held.tool_name

C12_Witness ==
  /\ heldExecutions = 2
  /\ handler = "confirm"
  /\ RequestIsHeld
  /\ response.kind = "summary"

\* C13: the verification_required response of update_conversation, sent
\* back to confirm_tool_call as it is, is accepted, and once the tool
\* client is set up the tool the LLM chose is executed.
C13_RoundTripResumes ==
  (handler = "confirm" /\ RequestIsHeld /\ Answered) =>
     /\ response.status # 422
     /\ ConfirmSetUp =>
          \E k \in Logged({"tool_http"}, {"confirm"}) : calls[k].tool = held.tool_name

\* ------------------------------------------ ensure_schema_defaults
\* A JSON schema node.  An optional member is a sequence that is empty when
\* the key is absent: required holds the list of names, properties the
\* dict as the list of its items in insertion order, items the sub-schema.
SchemaNode(type, addl, req, props, items) ==
  [type |-> type, additionalProperties |-> addl, required |-> req,
   properties |-> props, items |-> items]

Property(key, schema) == [key |-> key, schema |-> schema]

\* list(properties.keys())
Keys(props) == [k \in DOMAIN props |-> props[k].key]

\* sorted(names), for the property names of the model
NameRank == [n \in {"a", "b"} |-> IF n = "a" THEN 1 ELSE 2]

RECURSIVE Insert(_, _)
Insert(n, seq) ==
  IF seq = <<>> THEN <<n>>
  ELSE IF NameRank[n] <= NameRank[Head(seq)] THEN <<n>> \o seq
  ELSE <<Head(seq)>> \o Insert(n, Tail(seq))

RECURSIVE Sorted(_)
Sorted(seq) == IF seq = <<>> THEN <<>> ELSE Insert(Head(seq), Sorted(Tail(seq)))

RECURSIVE EnsureSchemaDefaults(_), EnsureSchemaDefaultsElif(_)

\* Mutant: additionalProperties is defaulted only on a visit that finds
\* required already in place (elif instead of two ifs).
EnsureSchemaDefaultsElif(schema) ==
  IF schema.type = "object"
    THEN IF schema.properties # <<>>
           THEN LET props == schema.properties[1]
                    stale == \/ schema.required = <<>>
                             \/ Sorted(schema.required[1]) # Sorted(Keys(props))
                IN  [schema EXCEPT
                       !.additionalProperties =
                          IF ~stale /\ @ = "absent" THEN "false" ELSE @,
                       !.required = IF stale THEN << Keys(props) >> ELSE @,
                       !.properties =
                          << [k \in DOMAIN props |->
                                Property(props[k].key,
                                         EnsureSchemaDefaultsElif(props[k].schema))] >>]
           ELSE [schema EXCEPT
                   !.additionalProperties = IF @ = "absent" THEN "false" ELSE @]
  ELSE IF schema.type = "array" /\ schema.items # <<>>
    THEN [schema EXCEPT !.items = << EnsureSchemaDefaultsElif(schema.items[1]) >>]
  ELSE schema

\* ensure_schema_defaults(schema): the schema as the call leaves it.
EnsureSchemaDefaults(schema) ==
  IF schema.type = "object"
    THEN IF schema.properties # <<>>
           THEN LET props == schema.properties[1]
                    stale == \/ schema.required = <<>>
                             \/ Sorted(schema.required[1]) # Sorted(Keys(props))
                IN  [schema EXCEPT
                       !.additionalProperties = IF @ = "absent" THEN "false" ELSE @,
                       !.required = IF stale THEN << Keys(props) >> ELSE @,
                       !.properties =
                          << [k \in DOMAIN props |->
                                Property(props[k].key,
                                         EnsureSchemaDefaults(props[k].schema))] >>]
           ELSE [schema EXCEPT
                   !.additionalProperties = IF @ = "absent" THEN "false" ELSE @]
  ELSE IF schema.type = "array" /\ schema.items # <<>>
    THEN [schema EXCEPT !.items = << EnsureSchemaDefaults(schema.items[1]) >>]
  ELSE schema

\* The parameter schemas of the model, up to a nesting depth.
MaxDepth == 2

StringSchema == SchemaNode("string", "absent", <<>>, <<>>, <<>>)
BareObject == SchemaNode("object", "absent", <<>>, <<>>, <<>>)

AdditionalValues == {"absent", "false", "true"}
PropertyNames == { <<>>, <<"a">>, <<"a", "b">>, <<"b", "a">> }

Reverse(seq) == [k \in DOMAIN seq |-> seq[Len(seq) + 1 - k]]

\* required absent, empty, the names in order and the names reversed
RequiredValues(names) == { <<>>, << <<>> >>, << names >>, << Reverse(names) >> }

PropertiesOver(names, children) ==
  { [k \in DOMAIN names |-> Property(names[k], f[k])] :
      f \in [DOMAIN names -> children] }

ObjectsOver(nameLists, children) ==
  UNION { UNION { { SchemaNode(t, a, r, << p >>, <<>>) :
                      t \in {"object", "absent"}, a \in AdditionalValues,
                      r \in RequiredValues(names) } :
                  p \in PropertiesOver(names, children) } :
          names \in nameLists }

ArraysOver(children) ==
  { SchemaNode("array", "absent", <<>>, <<>>, it) :
      it \in { <<>> } \cup { << c >> : c \in children } }

\* One more level around a schema: an array of it, or an object with it as
\* its only property.
Wrapped(children) ==
  ArraysOver(children)
  \cup { SchemaNode("object", a, <<>>, << << Property("a", c) >> >>, <<>>) :
           a \in {"absent", "true"}, c \in children }

RECURSIVE SchemasUpTo(_)
SchemasUpTo(d) ==
  IF d = 0 THEN {StringSchema, BareObject}
  ELSE LET below == SchemasUpTo(d - 1)
       IN  below \cup (IF d = 1
                         THEN ArraysOver(below) \cup ObjectsOver(PropertyNames, below)
                         ELSE Wrapped(below))

Schemas == SchemasUpTo(MaxDepth)

\* prepare_tool_list: ensure_schema_defaults(params_schema) on the
\* parameters of a hit; a second call is what a later turn that finds the
\* same definition does.
ApplyEnsure ==
  /\ Len(schemaRun) \in 1..2
  /\ schemaRun' = Append(schemaRun, EnsureSchemaDefaults(schemaRun[Len(schemaRun)]))
  /\ UNCHANGED << pc, handler, reqNo, request, turnVars, messages, tool_result,
                  lastHttp, response, calls, setups, resolverCalls,
                  confirmReceived, filterVars, clientVars, cleanRun, sendRun,
                  poolVars, serviceVars >>

InitSchema ==
  /\ ServerIdle
  /\ http_clients = <<>>
  /\ schemaRun \in { << sch >> : sch \in Schemas }
  /\ cleanRun = <<>>
  /\ sendRun = <<>>

NextSchema == ApplyEnsure

SpecSchema == InitSchema /\ [][NextSchema]_vars

\* Every schema node reached through properties and items.
RECURSIVE Nodes(_)
Nodes(schema) ==
  {schema}
  \cup (IF schema.properties = <<>> THEN {}
        ELSE UNION { Nodes(schema.properties[1][k].schema) :
                       k \in DOMAIN schema.properties[1] })
  \cup (IF schema.items = <<>> THEN {} ELSE Nodes(schema.items[1]))

ObjectNodes(schema) == {n \in Nodes(schema) : n.type = "object"}

Prepared == Len(schemaRun) >= 2

\* C15: every object node of the parameter schema of a tool definition
\* passed to the LLM, nested ones included, has additionalProperties false
\* and a required list naming every key of its properties.
C15_StrictSchemaEverywhere ==
  Prepared =>
    \A n \in ObjectNodes(schemaRun[2]) :
       /\ n.additionalProperties = "false"
       /\ n.properties # <<>> =>
            /\ n.required # <<>>
            /\ \A k \in DOMAIN n.properties[1] :
                 \E r \in DOMAIN n.required[1] :
                    n.required[1][r] = n.properties[1][k].key

\* C16: after ensure_schema_defaults of an object schema, every object
\* schema in it that has properties has required equal to the sorted list
\* of its property keys and additionalProperties equal to false.
C16_RequiredSortedAndClosed ==
  (Prepared /\ schemaRun[1].type = "object") =>
    \A n \in ObjectNodes(schemaRun[2]) :
       n.properties # <<>> =>
          /\ n.required = << Sorted(Keys(n.properties[1])) >>
          /\ n.additionalProperties = "false"

\* C17: ensure_schema_defaults is idempotent: applied to its own result it
\* leaves the schema as it is.
C17_Idempotent ==
  Len(schemaRun) = 3 => schemaRun[3] = schemaRun[2]

C17_Witness ==
  /\ Len(schemaRun) = 3
  /\ schemaRun[2] # schemaRun[1]
  /\ schemaRun[1].type = "object"
  /\ schemaRun[1].properties # <<>>
  /\ \E k \in DOMAIN schemaRun[1].properties[1] :
        schemaRun[2].properties[1][k].schema # schemaRun[1].properties[1][k].schema

\* ---------------------------------------------- clean_tool_result
\* A JSON value.  A string is described by what the function looks at: its
\* length, whether it contains a space, and whether it contains other
\* whitespace (a tab, a newline).  A list or dict holds its entries in
\* order; the entries of a list have the key "".
NoText == [len |-> 0, space |-> FALSE, other |-> FALSE]

JsonValue(kind, text, items) == [kind |-> kind, text |-> text, items |-> items]

Entry(key, value) == [key |-> key, value |-> value]

Str(len, space, other) ==
  JsonValue("str", [len |-> len, space |-> space, other |-> other], <<>>)

Num == JsonValue("num", NoText, <<>>)

List(values) == JsonValue("list", NoText, [k \in DOMAIN values |-> Entry("", values[k])])

Dict(entries) == JsonValue("dict", NoText, entries)

\* data[:10]
ListLimit == 10

\* len(new_value) > 50
MaxWordLength == 50

\* isinstance(v, str) and (" " not in v) and len(v) > 50
Removable(v) == v.kind = "str" /\ ~v.text.space /\ v.text.len > MaxWordLength

Keep(e) == ~Removable(e.value)

RECURSIVE CleanToolResult(_), CleanToolResultFilterFirst(_)

\* Mutant: the strings are dropped first and the list is cut to 10 after.
CleanToolResultFilterFirst(data) ==
  IF data.kind \in {"dict", "list"}
    THEN LET cleaned == SelectSeq([k \in DOMAIN data.items |->
                                     Entry(data.items[k].key,
                                           CleanToolResultFilterFirst(data.items[k].value))],
                                  Keep)
         IN  [data EXCEPT !.items =
                IF data.kind = "list"
                  THEN SubSeq(cleaned, 1, Min(Len(cleaned), ListLimit))
                  ELSE cleaned]
    ELSE data

\* clean_tool_result(data): a new value is built; a list is cut to its
\* first 10 items before its items are cleaned and filtered.
CleanToolResult(data) ==
  IF data.kind \in {"dict", "list"}
    THEN LET limited == IF data.kind = "list"
                          THEN SubSeq(data.items, 1, Min(Len(data.items), ListLimit))
                          ELSE data.items
         IN  [data EXCEPT !.items =
                SelectSeq([k \in DOMAIN limited |->
                             Entry(limited[k].key, CleanToolResult(limited[k].value))],
                          Keep)]
    ELSE data

\* The tool results of the model.
MaxListLen == 11

Scalars ==
  {Num, Str(MaxWordLength, FALSE, FALSE), Str(MaxWordLength + 1, FALSE, FALSE),
   Str(MaxWordLength + 1, TRUE, FALSE), Str(MaxWordLength + 1, FALSE, TRUE)}

\* Lists of one repeated scalar with one other scalar at one position.
ScalarLists ==
  { List([k \in 1..n |-> IF k = p THEN y ELSE x]) :
      n \in 0..MaxListLen, p \in 0..MaxListLen, x \in Scalars, y \in Scalars }

ToolResults ==
  Scalars
  \cup ScalarLists
  \cup { Dict(<< Entry("items", l) >>) : l \in ScalarLists }
  \cup { List(<< l >>) : l \in ScalarLists }
  \cup { Dict(<< Entry("id", x), Entry("text", y) >>) : x \in Scalars, y \in Scalars }

\* Mutant: the list that is passed is cut in place (del data[10:]).
DataAfterCutInPlace(data) ==
  IF data.kind = "list"
    THEN [data EXCEPT !.items = SubSeq(data.items, 1, Min(Len(data.items), ListLimit))]
    ELSE data

\* The object that was passed, after the call: data[:10] is a new list
\* bound to the local name, cleaned and cleaned_list are new containers, and
\* nothing is assigned into or removed from the argument.
DataAfter(data) == data

\* tool_result = clean_tool_result(tool_result)
ApplyClean ==
  /\ Len(cleanRun) = 1
  /\ cleanRun' = << DataAfter(cleanRun[1]), CleanToolResult(cleanRun[1]) >>
  /\ UNCHANGED << pc, handler, reqNo, request, turnVars, messages, tool_result,
                  lastHttp, response, calls, setups, resolverCalls,
                  confirmReceived, filterVars, clientVars, schemaRun, sendRun,
                  poolVars, serviceVars >>

\* clean_tool_result applied to what it returned.
ApplyCleanAgain ==
  /\ Len(cleanRun) = 2
  /\ cleanRun' = << cleanRun[1], DataAfter(cleanRun[2]), CleanToolResult(cleanRun[2]) >>
  /\ UNCHANGED << pc, handler, reqNo, request, turnVars, messages, tool_result,
                  lastHttp, response, calls, setups, resolverCalls,
                  confirmReceived, filterVars, clientVars, schemaRun, sendRun,
                  poolVars, serviceVars >>

InitClean ==
  /\ ServerIdle
  /\ http_clients = <<>>
  /\ schemaRun = <<>>
  /\ cleanRun \in { << d >> : d \in ToolResults }
  /\ sendRun = <<>>

NextClean ==
  \/ ApplyClean
  \/ ApplyCleanAgain

SpecClean == InitClean /\ [][NextClean]_vars

Cleaned == Len(cleanRun) = 2

\* A list of the input with the list of the output that stands for it: the
\* value itself, and below it the entries at the same position as long as
\* no entry was dropped.
RECURSIVE ListPairs(_, _)
ListPairs(a, b) ==
  (IF a.kind = "list" THEN { << a, b >> } ELSE {})
  \cup (IF a.kind \in {"dict", "list"} /\ Len(b.items) = Len(a.items)
          THEN UNION { ListPairs(a.items[k].value, b.items[k].value) :
                         k \in DOMAIN a.items }
          ELSE {})

\* C18, as claimed: an array of length N of the input has length exactly
\* min(N, 10) in the output.
C18_LengthIsMin ==
  Cleaned =>
    \A pr \in ListPairs(cleanRun[1], cleanRun[2]) :
       Len(pr[2].items) = Min(Len(pr[1].items), ListLimit)

\* C18, amended: an array of length N of the input has in the output the
\* length min(N, 10) less the number of its first 10 items that are strings
\* longer than 50 characters without a space.
C18_LengthIsMinLessDropped ==
  Cleaned =>
    \A pr \in ListPairs(cleanRun[1], cleanRun[2]) :
       LET first == 1..Min(Len(pr[1].items), ListLimit)
           dropped == {k \in first : Removable(pr[1].items[k].value)}
       IN  Len(pr[2].items) = Min(Len(pr[1].items), ListLimit) - Cardinality(dropped)

C18_Witness ==
  /\ Cleaned
  /\ cleanRun[1].kind = "dict"
  /\ \E pr \in ListPairs(cleanRun[1], cleanRun[2]) :
        /\ Len(pr[1].items) > ListLimit
        /\ Len(pr[2].items) = ListLimit - 1

HasWhitespace(v) == v.text.space \/ v.text.other

\* What the claim says is removed: a string without whitespace that is
\* longer than 50 characters.
LongWord(v) == v.kind = "str" /\ ~HasWhitespace(v) /\ v.text.len > MaxWordLength

Flat(v) ==
  /\ v.kind \in {"dict", "list"}
  /\ Len(v.items) <= ListLimit
  /\ \A k \in DOMAIN v.items : v.items[k].value.kind \in {"str", "num"}

\* C19: clean_tool_result removes a string from the object or array that
\* holds it exactly when the string has no whitespace and is longer than 50
\* characters; every other scalar is kept, unchanged and in its place.
C19_RemovesExactlyLongWords ==
  (Cleaned /\ Flat(cleanRun[1])) =>
     cleanRun[2].items =
       SelectSeq(cleanRun[1].items, LAMBDA e : ~LongWord(e.value))

\* ------------------------------- send_tool_call: building the request
\* Text is a sequence of pieces; a placeholder "{key}" is one piece.  An
\* argument value is a JSON value with the text of its string form.
Placeholder ==
  [k \in {"id", "name", "query", "body", "configuration"} |->
     CASE k = "id" -> "{id}"
       [] k = "name" -> "{name}"
       [] k = "query" -> "{query}"
       [] k = "body" -> "{body}"
       [] k = "configuration" -> "{configuration}"]

ArgValue(kind, text, items) == [kind |-> kind, text |-> text, items |-> items]

StrArg(text) == ArgValue("str", text, <<>>)
IntArg(text) == ArgValue("int", text, <<>>)
NoneArg == ArgValue("none", <<"None">>, <<>>)
ListArg(values) ==
  ArgValue("list", <<"[...]">>, [k \in DOMAIN values |-> Entry("", values[k])])
DictArg(entries) == ArgValue("dict", <<"{...}">>, entries)
Absent == ArgValue("absent", <<>>, <<>>)

\* str(value)
StrForm(v) == StrArg(v.text)

\* bool(value)
Truthy(v) ==
  CASE v.kind \in {"none", "absent"} -> FALSE
    [] v.kind = "str" -> v.text # <<>>
    [] v.kind \in {"list", "dict"} -> v.items # <<>>
    [] OTHER -> TRUE

\* v in (None, "", {}, [])
IsEmptyValue(v) ==
  \/ v.kind = "none"
  \/ v.kind = "str" /\ v.text = <<>>
  \/ v.kind \in {"list", "dict"} /\ v.items = <<>>

\* dict.get(key, default)
Get(entries, key, default) ==
  IF \E k \in DOMAIN entries : entries[k].key = key
    THEN entries[CHOOSE k \in DOMAIN entries : entries[k].key = key].value
    ELSE default

\* dict[key] = value: in place when the key exists, appended otherwise
Put(entries, key, value) ==
  IF \E k \in DOMAIN entries : entries[k].key = key
    THEN [k \in DOMAIN entries |->
            IF entries[k].key = key THEN Entry(key, value) ELSE entries[k]]
    ELSE Append(entries, Entry(key, value))

\* path.replace(old, new)
RECURSIVE Replace(_, _, _)
Replace(path, old, new) ==
  IF path = <<>> THEN <<>>
  ELSE (IF Head(path) = old THEN new ELSE << Head(path) >>)
       \o Replace(Tail(path), old, new)

\* ",".join(map(str, v))
RECURSIVE Join(_)
Join(items) ==
  IF items = <<>> THEN <<>>
  ELSE IF Len(items) = 1 THEN items[1].value.text
  ELSE items[1].value.text \o << "," >> \o Join(Tail(items))

AuthPlaceholder == StrArg(<< "YOUR_AUTH_TOKEN" >>)

\* Mutant: the placeholder is sent as it is, like any other string.
QueryValueKeepsPlaceholder(v, api_key) ==
  IF v.kind = "list" THEN StrArg(Join(v.items)) ELSE StrForm(v)

\* The value of one query entry as it is sent.
QueryValue(v, api_key) ==
  IF v = AuthPlaceholder THEN api_key
  ELSE IF v.kind = "list" THEN StrArg(Join(v.items))
  ELSE StrForm(v)

NonEmptyEntries(entries) == SelectSeq(entries, LAMBDA e : ~IsEmptyValue(e.value))

QueryItems(entries, api_key) ==
  LET kept == NonEmptyEntries(entries)
  IN  [k \in DOMAIN kept |-> Entry(kept[k].key, QueryValue(kept[k].value, api_key))]

BodyItems(entries) == NonEmptyEntries(entries)

\* tool_args after the configuration block: body and query become the
\* entry of the profile, or None.
Profile(tool_args, part) ==
  LET whole == Get(tool_args, part, DictArg(<<>>))
      name == Get(tool_args, "configuration", Absent).text[1]
  IN  Get(whole.items, name, NoneArg)

\* Mutant: the configuration is ignored and the whole objects are used.
ConfiguredWhole(tool_args) == tool_args

Configured(tool_args) ==
  IF Truthy(Get(tool_args, "configuration", Absent))
    THEN Put(Put(tool_args, "body", Profile(tool_args, "body")),
             "query", Profile(tool_args, "query"))
    ELSE tool_args

\* .get on a body or query that is not a dict raises
ConfigurationRaises(tool_args) ==
  /\ Truthy(Get(tool_args, "configuration", Absent))
  /\ \E part \in {"body", "query"} :
        Get(tool_args, part, DictArg(<<>>)).kind # "dict"

Built(path, query, body) == [path |-> path, query |-> query, body |-> body]

\* for key, value in tool_args.items(): ...
RECURSIVE BuildParts(_, _, _)
BuildParts(entries, api_key, acc) ==
  IF entries = <<>> THEN acc
  ELSE LET key == Head(entries).key
           value == Head(entries).value
           next ==
             IF key # "query" /\ key # "body"
               THEN [acc EXCEPT !.path = Replace(@, Placeholder[key], StrForm(value).text)]
             ELSE IF key = "query" /\ Truthy(value)
               THEN IF QueryItems(value.items, api_key) # <<>>
                      THEN [acc EXCEPT !.query = DictArg(QueryItems(value.items, api_key))]
                      ELSE acc
             ELSE IF key = "body" /\ Truthy(value)
               THEN IF BodyItems(value.items) # <<>>
                      THEN [acc EXCEPT !.body = DictArg(BodyItems(value.items))]
                      ELSE acc
             ELSE acc
       IN  BuildParts(Tail(entries), api_key, next)

NoBuilt == Built(<<>>, NoneArg, NoneArg)

HttpRequest(raised, method, parts) ==
  [raised |-> raised, method |-> method, path |-> parts.path,
   query |-> parts.query, body |-> parts.body]

\* The request send_tool_call builds for a tool name and arguments, or the
\* exception it raises before building one.
SendToolCall(schema, api_key, tool_name, tool_args) ==
  LET tool == SelectSeq(schema, LAMBDA item : item.name = tool_name)
  IN  IF tool = <<>>
        THEN HttpRequest(IF schema = <<>> THEN "IndexError" ELSE "ValueError",
                         "none", NoBuilt)
      ELSE IF ConfigurationRaises(tool_args)
        THEN HttpRequest("AttributeError", "none", NoBuilt)
      ELSE HttpRequest("none", tool[1].method,
                       BuildParts(Configured(tool_args), api_key,
                                  Built(tool[1].path, NoneArg, NoneArg)))

\* The catalog, credential, tool names and arguments of the model.
ToolDef(name, method, path) == [name |-> name, method |-> method, path |-> path]

FunctionsSchema ==
  << ToolDef("get_items", "GET", << "/users/", "{id}", "/items" >>),
     ToolDef("rename_user", "PUT", << "/users/", "{id}", "/name/", "{name}" >>),
     ToolDef("search", "GET", << "/search/", "{query}", "/", "{body}" >>) >>

ApiKey == StrArg(<< "live-credential" >>)

CalledNames == {"get_items", "rename_user", "search", "missing"}

IdValues == {StrArg(<< "42" >>), IntArg(<< "7" >>), StrArg(<< "{name}" >>), NoneArg}

NameValues == {StrArg(<< "bob" >>)}

PathArgs ==
  { <<>> }
  \cup { << Entry("id", v) >> : v \in IdValues }
  \cup { << Entry("id", v), Entry("name", n) >> : v \in IdValues, n \in NameValues }
  \cup { << Entry("name", n), Entry("id", v) >> : v \in IdValues, n \in NameValues }

QueryDicts ==
  { DictArg(<<>>),
    DictArg(<< Entry("limit", IntArg(<< "5" >>)) >>),
    DictArg(<< Entry("limit", IntArg(<< "5" >>)),
               Entry("token", AuthPlaceholder),
               Entry("tags", ListArg(<< StrArg(<< "a" >>), IntArg(<< "2" >>) >>)),
               Entry("cursor", StrArg(<<>>)) >>),
    DictArg(<< Entry("cursor", NoneArg), Entry("tags", ListArg(<<>>)) >>) }

BodyDicts ==
  { DictArg(<<>>),
    DictArg(<< Entry("title", StrArg(<< "t" >>)), Entry("note", StrArg(<<>>)),
               Entry("count", IntArg(<< "3" >>)) >>) }

Profiled(dicts) == { DictArg(<< Entry("default", d) >>) : d \in dicts }

Optional(key, values) == { <<>> } \cup { << Entry(key, v) >> : v \in values }

ToolArgs ==
  { p \o q \o b : p \in PathArgs,
                  q \in Optional("query", QueryDicts \cup {NoneArg}),
                  b \in Optional("body", BodyDicts) }
  \cup { p \o q \o b \o << Entry("configuration", c) >> :
           p \in { a \in PathArgs : Len(a) <= 1 },
           q \in Optional("query", Profiled(QueryDicts) \cup {NoneArg}),
           b \in Optional("body", Profiled(BodyDicts)),
           c \in {StrArg(<< "default" >>), StrArg(<< "other" >>)} }

ToolCall(schema, name, args) == [schema |-> schema, tool_name |-> name, tool_args |-> args]

\* tool_client.send_tool_call(tool_name, tool_arguments), up to the request
BuildRequest ==
  /\ Len(sendRun) = 1
  /\ sendRun' = Append(sendRun,
                       SendToolCall(sendRun[1].schema, ApiKey,
                                    sendRun[1].tool_name, sendRun[1].tool_args))
  /\ UNCHANGED << pc, handler, reqNo, request, turnVars, messages, tool_result,
                  lastHttp, response, calls, setups, resolverCalls,
                  confirmReceived, filterVars, clientVars, schemaRun, cleanRun,
                  poolVars, serviceVars >>

InitRequest ==
  /\ ServerIdle
  /\ http_clients = <<>>
  /\ schemaRun = <<>>
  /\ cleanRun = <<>>
  /\ sendRun \in { << ToolCall(sch, n, a) >> :
                     sch \in {FunctionsSchema, <<>>}, n \in CalledNames, a \in ToolArgs }

NextRequest == BuildRequest

SpecRequest == InitRequest /\ [][NextRequest]_vars

RequestBuilt == Len(sendRun) = 2 /\ sendRun[2].raised = "none"

Template(call) ==
  (SelectSeq(call.schema, LAMBDA item : item.name = call.tool_name))[1].path

PathKeys(call) ==
  {call.tool_args[k].key : k \in DOMAIN call.tool_args} \ {"query", "body"}

\* The template with the placeholder of every path key replaced by the
\* string form of its value, all at once.
RECURSIVE Substituted(_, _)
Substituted(path, call) ==
  IF path = <<>> THEN <<>>
  ELSE (IF \E key \in PathKeys(call) : Placeholder[key] = Head(path)
          THEN StrForm(Get(call.tool_args,
                           CHOOSE key \in PathKeys(call) : Placeholder[key] = Head(path),
                           Absent)).text
          ELSE << Head(path) >>)
       \o Substituted(Tail(path), call)

ExampleCall ==
  ToolCall(FunctionsSchema, "get_items",
           << Entry("id", StrArg(<< "42" >>)),
              Entry("query", DictArg(<< Entry("limit", IntArg(<< "5" >>)) >>)) >>)

\* C20: the request path is the path template with the {key} placeholder of
\* every top-level argument other than query and body replaced by the string
\* form of its value; query and body are never substituted into the path;
\* /users/{id}/items with {id: "42", query: {limit: 5}} gives the path
\* /users/42/items, the query {limit: "5"} and no body.
C20_PathSubstitution ==
  RequestBuilt =>
     /\ sendRun[2].path = Substituted(Template(sendRun[1]), sendRun[1])
     /\ sendRun[1] = ExampleCall =>
          /\ sendRun[2].path = << "/users/", "42", "/items" >>
          /\ sendRun[2].query = DictArg(<< Entry("limit", StrArg(<< "5" >>)) >>)
          /\ sendRun[2].body = NoneArg

\* The query object the request is built from: arguments.query, or its
\* entry of the profile when arguments.configuration names one.
SourceQuery(call) ==
  LET whole == Get(call.tool_args, "query", NoneArg)
      conf == Get(call.tool_args, "configuration", Absent)
  IN  IF conf.kind = "absent" THEN whole
      ELSE IF whole.kind = "dict" THEN Get(whole.items, conf.text[1], NoneArg)
      ELSE NoneArg

EmptyValues == {NoneArg, StrArg(<<>>), DictArg(<<>>), ListArg(<<>>)}

\* The flat map the claim describes, entry by entry.
RECURSIVE FlatQuery(_)
FlatQuery(entries) ==
  IF entries = <<>> THEN <<>>
  ELSE LET e == Head(entries)
           sent == IF e.value = StrArg(<< "YOUR_AUTH_TOKEN" >>) THEN ApiKey
                   ELSE IF e.value.kind = "list" THEN StrArg(Join(e.value.items))
                   ELSE StrArg(e.value.text)
       IN  (IF e.value \in EmptyValues THEN <<>> ELSE << Entry(e.key, sent) >>)
           \o FlatQuery(Tail(entries))

\* C21: the query of the request is the flat map of the query argument in
\* which the value YOUR_AUTH_TOKEN is replaced by the credential, lists are
\* joined with commas and entries whose value is None, "", {} or [] are
\* dropped; when nothing is left the request has no query.
C21_QueryIsFlatMap ==
  RequestBuilt =>
     LET source == SourceQuery(sendRun[1])
         flat == IF source.kind = "dict" THEN FlatQuery(source.items) ELSE <<>>
     IN  sendRun[2].query = (IF flat = <<>> THEN NoneArg ELSE DictArg(flat))

C21_Witness ==
  /\ RequestBuilt
  /\ Get(sendRun[1].tool_args, "configuration", Absent) = Absent
  /\ sendRun[2].query =
       DictArg(<< Entry("limit", StrArg(<< "5" >>)),
                  Entry("token", ApiKey),
                  Entry("tags", StrArg(<< "a", ",", "2" >>)) >>)

\* C22: send_tool_call with a tool name that is not in the catalog raises
\* the ValueError naming the tool and builds no request, whatever the
\* catalog, the empty one included.
C22_UnknownToolIsValueError ==
  (Len(sendRun) = 2
   /\ \A k \in DOMAIN sendRun[1].schema : sendRun[1].schema[k].name # sendRun[1].tool_name) =>
     /\ sendRun[2].raised = "ValueError"
     /\ sendRun[2].method = "none"

\* ------------------------------------------------ the turn, continued
\* Names of the hits of the turn's search result whose action field is WRITE.
WriteHits == {hits[k] : k \in {n \in DOMAIN hits : Index[hits[n]].action = "WRITE"}}

\* C23: a hit is WRITE exactly when its action field equals WRITE (READ when
\* the field is absent); at the gate the WRITE set is the set of the names of
\* the WRITE hits of the search result, and the chosen tool is answered with
\* verification_required exactly when its name is in that set.
C23_WriteSetGates ==
  WasChosen =>
     /\ write_tools = WriteHits
     /\ \A k \in DOMAIN hits :
          Index[hits[k]].action = NoAction => hits[k] \notin write_tools
     /\ Answered => (response.kind = "verification" <=> chosen \in WriteHits)

C23_Witness ==
  /\ Answered
  /\ WasChosen
  /\ hits = << "post_message", "list_channels" >>
  /\ chosen = "list_channels"
  /\ write_tools = {"post_message"}
  /\ Logged({"tool_http"}, {"main"}) # {}

\* The resolver returns None: its search found no hit for the parent, or the
\* LLM of the sub-turn answered without a tool call.
ResolverReturnsNone ==
  \/ pc = "r_search" /\ pc' # "idle" /\ parentHit' = NoHit
  \/ pc = "r_llm" /\ pc' \notin {"r_setup", "idle"}

\* C24: when the resolver finds no hit for the parent or the LLM declines in
\* the sub-turn, it returns None: no tool client is built and no tool call is
\* sent for it, no message is added and the parent is not memoized, no
\* response is produced and the loop of the turn goes on to the next
\* association.
C24_ResolverNoneContinues ==
  [][ResolverReturnsNone =>
        /\ pc' = "u_assoc"
        /\ j' = j + 1
        /\ messages' = messages
        /\ completed_tools' = completed_tools
        /\ setups' = setups
        /\ Len(calls') = Len(calls) + 1
        /\ calls'[Len(calls')].kind \in {"search", "llm"}
        /\ response' = response]_vars

C24_Witness ==
  /\ handler = "update"
  /\ Logged({"llm"}, {"offer"}) # {}
  /\ Logged({"llm"}, {"assoc"}) # {}
  /\ resolverCalls # <<>>
  /\ SetupsIn({"assoc"}) = {}
  /\ \A k \in DOMAIN messages : messages[k] # AssocResult

\* The tool-offer LLM call returned a response without a tool call.
NoToolChosen ==
  /\ handler = "update"
  /\ Logged({"llm"}, {"offer"}) # {}
  /\ chosen = NoTool
  /\ response.kind # "http_error"

\* C25: when the LLM chooses no tool in the tool-offer call, the turn
\* answers with that response and the tool-offer call is its last external
\* call: no tool client is built for a chosen call, no tool call is sent for
\* one and no summarization call is made.
C25_NoToolReturnsDirectly ==
  NoToolChosen =>
     /\ pc = "idle"
     /\ response = [kind |-> "completion", status |-> 200]
     /\ calls[Len(calls)] = Call("llm", "offer", NoTool)
     /\ SetupsIn({"main"}) = {}
     /\ Logged({"send_tool_call", "tool_http"}, {"main"}) = {}
     /\ Logged({"llm"}, {"summary"}) = {}

C25_Witness ==
  /\ NoToolChosen
  /\ Answered
  /\ response.kind = "completion"
  /\ Logged({"tool_http"}, {"assoc"}) # {}

\* An exception was raised in the turn somewhere else than in the invocation
\* of the chosen tool: in an invocation or a setup_tool_client of the
\* association resolver, in the setup_tool_client of the chosen call, or
\* while the search filter was built.
RaisedOutsideInvocation ==
  /\ handler = "update"
  /\ \/ Logged(RaiseKinds, {"assoc"}) # {}
     \/ \E k \in SetupsIn({"assoc", "main"}) : setups[k].outcome # "ok"
     \/ Logged({"attribute_error"}, {"main"}) # {}

\* C26: an exception raised in an update_conversation turn after the
\* empty-messages check, other than a failure of the invocation of the
\* chosen tool, ends the turn with a response of status 500.
C26_EveryExceptionIs500 ==
  RaisedOutsideInvocation =>
     /\ pc = "idle"
     /\ response = [kind |-> "http_error", status |-> 500]

\* The stage of the turn an entry of the call log belongs to.
Stage(c) ==
  CASE c.phase = "assoc" -> 3
    [] c.kind \in {"db", "attribute_error"} -> 0
    [] c.kind = "embedding" -> 1
    [] c.kind = "search" -> 2
    [] c.phase = "offer" -> 4
    [] c.phase = "summary" -> 6
    [] OTHER -> 5

OncePerTurn ==
  {Call("embedding", "main", NoTool), Call("search", "main", NoTool),
   Call("llm", "offer", NoTool), Call("llm", "summary", NoTool)}
  \cup {Call(k, "main", t) : k \in {"clerk", "send_tool_call", "tool_http"}, t \in ToolNames}

InStageOrder ==
  handler = "update" =>
     /\ \A a, b \in DOMAIN calls : a < b => Stage(calls[a]) <= Stage(calls[b])
     /\ \A a, b \in DOMAIN calls :
          (calls[a] \in OncePerTurn /\ Stage(calls[a]) = Stage(calls[b])
           /\ calls[a].kind = calls[b].kind) => a = b

\* C27: the external calls of an update_conversation turn are made one after
\* the other in the order embedding, search, association resolutions,
\* tool-offer call, tool invocation, summarization call, each stage but the
\* association resolutions at most once, and a turn that has ended makes no
\* further call.
C27_StagesInOrder ==
  /\ []InStageOrder
  /\ [][(pc = "idle" /\ reqNo' = reqNo) => calls' = calls]_vars

C27_Witness ==
  /\ handler = "update"
  /\ Answered
  /\ response.kind = "summary"
  /\ Logged({"tool_http"}, {"assoc"}) # {}
  /\ Logged({"tool_http"}, {"main"}) # {}

\* The summarization call is about to be made or has been made.
Summarizing ==
  \/ pc \in {"u_summarize", "c_summarize"}
  \/ Logged({"llm"}, {"summary"}) # {}

\* C28: on the auto-execute path and on the confirm path, what is appended
\* to the conversation after the tool call is the assistant message with the
\* tool call, the tool message with the result and the summarization
\* instruction, in this order and nothing else; the messages before them are
\* unchanged.
C28_ThreeMessagesAppended ==
  Summarizing =>
     LET n == Len(messages) IN
     /\ n >= 3
     /\ SubSeq(messages, n - 2, n) = << AssistantToolCall, ToolResultMsg, SummaryInstruction >>
     /\ handler = "confirm" => SubSeq(messages, 1, n - 3) = request.messages
     /\ handler = "update" =>
          \A k \in 1..(n - 3) : messages[k] \in {AssocResult, UserInput}

\* ------------------------------------------------------- HttpClient
\* HttpClient objects constructed in one behaviour.
MaxInstances == 2

\* hit.get("base_url") of the hits the tool clients are set up for
BaseUrls == {"https://slack.example", "https://spotify.example"}

NoTransport == 0
Unlocked == "unlocked"

\* HttpClient.__init__: self._client = None, self._lock = asyncio.Lock().
\* `handed` collects what get_client has returned, `reused` tells that a
\* call found the transport there, `cleaned` that cleanup has been called
\* and found a transport.
HttpClientNew(url) ==
  [base_url |-> url, client |-> NoTransport, lock |-> Unlocked,
   closing |-> FALSE, cleaned |-> FALSE, handed |-> {},
   reused |-> FALSE]

\* httpx.AsyncClient(base_url=self.base_url, ...)
AsyncClient(url, owner) == [base_url |-> url, owner |-> owner, closed |-> FALSE]

handlerVars ==
  << pc, handler, reqNo, request, turnVars, messages, tool_result, lastHttp,
     response, calls, setups, resolverCalls, confirmReceived, filterVars,
     clientVars, schemaRun, cleanRun, sendRun, serviceVars >>

StartCall(t, n) ==
  tasks' = [tasks EXCEPT ![t] = [pc |-> "acquire", inst |-> n]]

\* setup_tool_client: await HttpClient(base_url=hit.get("base_url"), ...)
\* .get_client() -- a new HttpClient object for every call.
SetupToolClient(t, url) ==
  /\ tasks[t].pc = "idle"
  /\ Len(http_clients) < MaxInstances
  /\ http_clients' = Append(http_clients, HttpClientNew(url))
  /\ StartCall(t, Len(http_clients) + 1)
  /\ UNCHANGED << transports, handlerVars >>

\* get_client is called on an HttpClient that exists (get_session, request).
GetClient(t, n) ==
  /\ tasks[t].pc = "idle"
  /\ n \in DOMAIN http_clients
  /\ StartCall(t, n)
  /\ UNCHANGED << http_clients, transports, handlerVars >>

\* async with self._lock: the coroutine goes on when the lock is free.
CanAcquire(lock) == lock = Unlocked

Acquire(t) ==
  /\ tasks[t].pc = "acquire"
  /\ CanAcquire(http_clients[tasks[t].inst].lock)
  /\ http_clients' = [http_clients EXCEPT ![tasks[t].inst].lock = t]
  /\ tasks' = [tasks EXCEPT ![t].pc = "locked"]
  /\ UNCHANGED << transports, handlerVars >>

\* Mutant: the transport is constructed on every call.
NeedsTransportAlways(client) == TRUE

\* if self._client is None
NeedsTransport(client) == client = NoTransport

\* The body under the lock, which has no await: the transport is created if
\* there is none, and returned.
CreateOrReuse(t) ==
  LET n == tasks[t].inst
      new == Len(transports) + 1
  IN  /\ tasks[t].pc = "locked"
      /\ IF NeedsTransport(http_clients[n].client)
           THEN /\ transports' = Append(transports, AsyncClient(http_clients[n].base_url, n))
                /\ http_clients' = [http_clients EXCEPT ![n].client = new,
                                                        ![n].handed = @ \cup {new}]
           ELSE /\ UNCHANGED transports
                /\ http_clients' = [http_clients EXCEPT ![n].handed = @ \cup {http_clients[n].client},
                                                        ![n].reused = TRUE]
      /\ tasks' = [tasks EXCEPT ![t].pc = "release"]
      /\ UNCHANGED handlerVars

\* The lock is released and the caller has the transport.
Release(t) ==
  /\ tasks[t].pc = "release"
  /\ http_clients' = [http_clients EXCEPT ![tasks[t].inst].lock = Unlocked]
  /\ tasks' = [tasks EXCEPT ![t].pc = "idle"]
  /\ UNCHANGED << transports, handlerVars >>

\* cleanup, called once for a client: if self._client: await
\* self._client.aclose() -- without the lock
CleanupStart(n) ==
  /\ n \in DOMAIN http_clients
  /\ http_clients[n].client # NoTransport
  /\ ~http_clients[n].closing
  /\ ~http_clients[n].cleaned
  /\ transports' = [transports EXCEPT ![http_clients[n].client].closed = TRUE]
  /\ http_clients' = [http_clients EXCEPT ![n].closing = TRUE, ![n].cleaned = TRUE]
  /\ UNCHANGED << tasks, handlerVars >>

\* cleanup, after the await: self._client = None
CleanupFinish(n) ==
  /\ n \in DOMAIN http_clients
  /\ http_clients[n].closing
  /\ http_clients' = [http_clients EXCEPT ![n].closing = FALSE, ![n].client = NoTransport]
  /\ UNCHANGED << transports, tasks, handlerVars >>

\* One HttpClient object, used by several coroutines and cleaned up.
InitHttpClient ==
  /\ ServerIdle
  /\ schemaRun = <<>>
  /\ cleanRun = <<>>
  /\ sendRun = <<>>
  /\ http_clients \in { << HttpClientNew(url) >> : url \in BaseUrls }

NextHttpClient ==
  \/ \E t \in Tasks : GetClient(t, 1)
  \/ \E t \in Tasks : Acquire(t)
  \/ \E t \in Tasks : CreateOrReuse(t)
  \/ \E t \in Tasks : Release(t)
  \/ CleanupStart(1)
  \/ CleanupFinish(1)

SpecHttpClient == InitHttpClient /\ [][NextHttpClient]_vars

\* The tool clients the handlers set up, each call with an object of its own.
NextToolClients ==
  \/ \E t \in Tasks, url \in BaseUrls : SetupToolClient(t, url)
  \/ \E t \in Tasks : Acquire(t)
  \/ \E t \in Tasks : CreateOrReuse(t)
  \/ \E t \in Tasks : Release(t)

SpecToolClients == Init /\ [][NextToolClients]_vars

\* The transports constructed by HttpClient n.
Owned(n) == {k \in DOMAIN transports : transports[k].owner = n}

\* C29: for one HttpClient, as long as cleanup has not been called, whatever
\* the interleaving of the get_client calls: at most one transport has been
\* created, it is the one the object holds, and every call that returned,
\* the later ones included, returned that transport.
C29_SingleTransport ==
  \A n \in DOMAIN http_clients :
     ~http_clients[n].cleaned =>
        /\ Cardinality(Owned(n)) <= 1
        /\ http_clients[n].handed \subseteq Owned(n)
        /\ http_clients[n].client # NoTransport => Owned(n) = {http_clients[n].client}

C29_Witness ==
  \E n \in DOMAIN http_clients :
     /\ ~http_clients[n].cleaned
     /\ Cardinality(Owned(n)) = 1
     /\ http_clients[n].reused
     /\ http_clients[n].handed = {http_clients[n].client}
     /\ \A t \in Tasks : tasks[t] = [pc |-> "idle", inst |-> n]

\* C30: the transport is shared per base URL: the tool clients set up for
\* one base URL, one after the other or concurrently, have created one
\* transport for it.
C30_OneTransportPerBaseUrl ==
  \A a, b \in DOMAIN transports :
     transports[a].base_url = transports[b].base_url => a = b

\* ------------------------------------------- configuration profiles
\* The call names a tool of the catalog and a profile, and its body and
\* query are objects or are not given.
ProfileCall(call) ==
  /\ \E k \in DOMAIN call.schema : call.schema[k].name = call.tool_name
  /\ Get(call.tool_args, "configuration", Absent).kind = "str"
  /\ Get(call.tool_args, "configuration", Absent).text # <<>>
  /\ \A part \in {"body", "query"} :
        Get(call.tool_args, part, Absent).kind \in {"dict", "absent"}

\* arguments.<part>[c], or None when the part is not given or has no entry c
ProfileEntry(call, part) ==
  LET whole == Get(call.tool_args, part, Absent)
      c == Get(call.tool_args, "configuration", Absent).text[1]
  IN  IF whole.kind = "dict" /\ (\E k \in DOMAIN whole.items : whole.items[k].key = c)
        THEN whole.items[CHOOSE k \in DOMAIN whole.items : whole.items[k].key = c].value
        ELSE NoneArg

RECURSIVE WithoutEmpty(_)
WithoutEmpty(entries) ==
  IF entries = <<>> THEN <<>>
  ELSE (IF Head(entries).value \in EmptyValues THEN <<>> ELSE << Head(entries) >>)
       \o WithoutEmpty(Tail(entries))

PartOrNone(entries) == IF entries = <<>> THEN NoneArg ELSE DictArg(entries)

\* C31: with arguments.configuration = c the request is built from
\* arguments.body[c] and arguments.query[c], each filtered for empty values,
\* and not from the whole objects; a part that is not given or has no entry c
\* is left out of the request.
C31_ProfileSelectsParts ==
  (Len(sendRun) = 2 /\ ProfileCall(sendRun[1])) =>
     LET b == ProfileEntry(sendRun[1], "body")
         q == ProfileEntry(sendRun[1], "query")
     IN  /\ sendRun[2].raised = "none"
         /\ sendRun[2].body =
              (IF b.kind = "dict" THEN PartOrNone(WithoutEmpty(b.items)) ELSE NoneArg)
         /\ sendRun[2].query =
              (IF q.kind = "dict" THEN PartOrNone(FlatQuery(q.items)) ELSE NoneArg)

C31_Witness ==
  /\ Len(sendRun) = 2
  /\ ProfileCall(sendRun[1])
  /\ Get(sendRun[1].tool_args, "configuration", Absent) = StrArg(<< "default" >>)
  /\ Get(sendRun[1].tool_args, "query", Absent) = Absent
  /\ sendRun[2].query = NoneArg
  /\ sendRun[2].body =
       DictArg(<< Entry("title", StrArg(<< "t" >>)), Entry("count", IntArg(<< "3" >>)) >>)

\* ------------------------------------------- the dependency managers
hostVars ==
  << pc, handler, reqNo, request, turnVars, messages, tool_result, lastHttp,
     response, calls, setups, resolverCalls, confirmReceived, filterVars,
     clientVars, schemaRun, cleanRun, sendRun, poolVars, syncRun, turns >>

Manage(k, m) == managers' = [managers EXCEPT ![k] = m] /\ UNCHANGED hostVars

\* MeilisearchManager.init: the client is assigned, then the health check is
\* awaited.  With a client already there init returns at once.
MeilisearchInit ==
  LET m == managers["meilisearch"] IN
  /\ m.pc = "idle"
  /\ IF m.handle
       THEN Manage("meilisearch", [m EXCEPT !.ready = TRUE])
       ELSE \/ Manage("meilisearch", [m EXCEPT !.handle = TRUE, !.pc = "health"])
            \/ Manage("meilisearch", m)

\* health = await self._client.health() returns, or raises and init re-raises
MeilisearchHealth ==
  LET m == managers["meilisearch"] IN
  /\ m.pc = "health"
  /\ \/ Manage("meilisearch", [m EXCEPT !.pc = "idle", !.ready = TRUE])
     \/ Manage("meilisearch", [m EXCEPT !.pc = "idle"])

\* OpenAIManager.init: the client is assigned, then instrumented
OpenAIInit ==
  LET m == managers["openai"] IN
  /\ m.pc = "idle"
  /\ \/ Manage("openai", [m EXCEPT !.handle = TRUE, !.ready = TRUE])
     \/ Manage("openai", [m EXCEPT !.handle = TRUE])
     \/ Manage("openai", m)

\* DatabaseManager.init: engine, instrumentation, session maker
DatabaseInit ==
  LET m == managers["database"] IN
  /\ m.pc = "idle"
  /\ IF m.engine
       THEN Manage("database", [m EXCEPT !.ready = TRUE])
       ELSE \/ Manage("database", [m EXCEPT !.engine = TRUE, !.handle = TRUE, !.ready = TRUE])
            \/ Manage("database", [m EXCEPT !.engine = TRUE])
            \/ Manage("database", m)

\* close: with something to close, the closing is awaited (not for OpenAI)
\* and then the fields are reset
CloseStart(k) ==
  LET m == managers[k] IN
  /\ m.pc = "idle"
  /\ IF k = "database" THEN m.engine ELSE m.handle
  /\ IF k = "openai"
       THEN Manage(k, [m EXCEPT !.handle = FALSE, !.ready = FALSE])
       ELSE Manage(k, [m EXCEPT !.pc = "closing", !.ready = FALSE])

CloseFinish(k) ==
  LET m == managers[k] IN
  /\ m.pc = "closing"
  /\ Manage(k, [m EXCEPT !.pc = "idle", !.engine = FALSE, !.handle = FALSE])

\* if not self._client: raise DependencyNotInitializedError(...)
Accessor(m) == IF m.handle THEN "handle" ELSE "DependencyNotInitializedError"

\* The property client (session_maker) is read by a request, while no init
\* or close is in progress.
Access(k) ==
  /\ managers[k].pc = "idle"
  /\ Manage(k, [managers[k] EXCEPT !.got = Accessor(managers[k]),
                                   !.gotReady = managers[k].ready])

NextManagers ==
  \/ MeilisearchInit
  \/ MeilisearchHealth
  \/ OpenAIInit
  \/ DatabaseInit
  \/ \E k \in ManagerKinds : CloseStart(k)
  \/ \E k \in ManagerKinds : CloseFinish(k)
  \/ \E k \in ManagerKinds : Access(k)

SpecManagers == Init /\ [][NextManagers]_vars

\* C33: the accessor of a manager returns a handle only when init has
\* completed successfully and close has not been called since, and raises
\* DependencyNotInitializedError in every other state.
C33_HandleOnlyWhenReady ==
  \A k \in ManagerKinds :
     /\ managers[k].got = "handle" => managers[k].gotReady
     /\ managers[k].got = "DependencyNotInitializedError" => ~managers[k].gotReady

\* ------------------------------------------------ sync_integrations
\* Calls of sync_integrations in one behaviour, and external accounts in one call.
MaxSyncs == 2
MaxAccounts == 2

\* Providers of external accounts; the integrations table has a row
\* (clerk_name) for some of them.
Providers == {"oauth_google", "oauth_github", "oauth_custom"}
KnownProviders == {"oauth_google", "oauth_github"}

AccountLists == UNION {[1..n -> Providers] : n \in 0..MaxAccounts}

\* A row of user_integrations of the user.
UserIntegrationRow(clerk_id, deleted) == [clerk_id |-> clerk_id, deleted |-> deleted]

\* The table as the last call left it.
Rows == IF syncRun = <<>> THEN <<>> ELSE syncRun[Len(syncRun)].rows

\* get_by_user_id: the rows that are not deleted
Active(rows) == {k \in DOMAIN rows : ~rows[k].deleted}

\* {ui.clerk_id: ui for ui in current_integrations}: one row for each
\* clerk_id, the last of the result, whose order the query leaves open.
CurrentMaps(rows) ==
  LET keys == {rows[k].clerk_id : k \in Active(rows)}
  IN  {f \in [keys -> DOMAIN rows] :
         \A p \in keys : f[p] \in Active(rows) /\ rows[f[p]].clerk_id = p}

\* Base.delete() on the rows of the map whose provider is gone.
SoftDeleted(rows, current, external_providers) ==
  [k \in DOMAIN rows |->
     IF \E p \in DOMAIN current : current[p] = k /\ p \notin external_providers
       THEN [rows[k] EXCEPT !.deleted = TRUE]
       ELSE rows[k]]

\* new_integration_data, then insert_multiple_user_integrations
Inserted(accounts, current) ==
  LET fresh == SelectSeq(accounts,
                         LAMBDA p : p \in KnownProviders /\ p \notin DOMAIN current)
  IN  [k \in DOMAIN fresh |-> UserIntegrationRow(fresh[k], FALSE)]

SyncIntegrations(rows, accounts, current) ==
  SoftDeleted(rows, current, {accounts[k] : k \in DOMAIN accounts})
  \o Inserted(accounts, current)

\* sync_integrations(session, user_id, external_accounts) returns, or a
\* statement raises and the session is rolled back.
Sync ==
  /\ Len(syncRun) < MaxSyncs
  /\ \E accounts \in AccountLists :
       \/ \E current \in CurrentMaps(Rows) :
            syncRun' = Append(syncRun,
                              [accounts |-> accounts, ok |-> TRUE,
                               rows |-> SyncIntegrations(Rows, accounts, current)])
       \/ syncRun' = Append(syncRun, [accounts |-> accounts, ok |-> FALSE, rows |-> Rows])
  /\ UNCHANGED << pc, handler, reqNo, request, turnVars, messages, tool_result,
                  lastHttp, response, calls, setups, resolverCalls,
                  confirmReceived, filterVars, clientVars, schemaRun, cleanRun,
                  sendRun, poolVars, managers, turns >>

NextSync == Sync

SpecSync == Init /\ [][NextSync]_vars

\* C34: after sync_integrations has returned, every row of the user that is
\* not deleted has the provider of one of the given external accounts as its
\* clerk_id, whatever the rows were before.
C34_ActiveRowsAreExternal ==
  (syncRun # <<>> /\ syncRun[Len(syncRun)].ok) =>
     LET last == syncRun[Len(syncRun)]
     IN  \A k \in Active(last.rows) :
            \E a \in DOMAIN last.accounts : last.accounts[a] = last.rows[k].clerk_id

\* ------------------------------------- turns over cyclic associations
\* update_conversation over an index whose documents name each other, and
\* themselves, as parents.  Every step of a turn is an external call that
\* returns or a step of the handler, so a started turn keeps stepping.
SearchFolders == SearchOver(FolderResultSets)

NextLoop ==
  \/ StartUpdateEmpty
  \/ StartUpdate
  \/ GetIntegrations
  \/ Embed
  \/ SearchFolders
  \/ ClassifyHit
  \/ AssocsDone
  \/ AssocSkip
  \/ AssocCall
  \/ ResolverSearch
  \/ ResolverLlm
  \/ ResolverSetup
  \/ ResolverSendReturns
  \/ ResolverSendRaises
  \/ PrepareOffer
  \/ OfferFails
  \/ OfferNoTool
  \/ OfferTool
  \/ ReturnVerification
  \/ UpdateSetup
  \/ UpdateSendReturns
  \/ UpdateSendRaises
  \/ UpdateSummarize

SpecLoop == Init /\ [][NextLoop]_vars /\ WF_vars(NextLoop)

\* The association entries of the turn's search hits.
AssociationEntries ==
  UNION {{<< k, a >> : a \in DOMAIN Associations(hits[k])} : k \in DOMAIN hits}

EntryParents ==
  {Associations(hits[e[1]])[e[2]].parent_tool_name : e \in AssociationEntries}

SubCallsBounded ==
  handler = "update" =>
    /\ Len(resolverCalls) <= Cardinality(AssociationEntries)
    /\ \A r \in DOMAIN resolverCalls : resolverCalls[r] \in EntryParents
    /\ \A k \in {"search", "llm", "clerk", "send_tool_call", "tool_http"} :
          /\ Cardinality(Logged({k}, {"assoc"})) <= Len(resolverCalls)
          /\ \A c \in Logged({k}, {"assoc"}) : calls[c].tool \in EntryParents
    /\ Cardinality(Logged({"send_tool_call"}, {"main"})) <= 1

\* C35: provided every external call returns, every update_conversation
\* turn terminates, after at most one association sub-call per association
\* entry of the search hits and at most one main tool invocation; every
\* sub-call is for a parent named by an entry of a search hit, never for a
\* parent named only by the associations of a resolved parent, also when
\* the associations are self-referencing or cyclic.
C35_TurnTerminates ==
  /\ []SubCallsBounded
  /\ (handler = "update" /\ pc # "idle") ~> (pc = "idle")

C35_Witness ==
  /\ Answered
  /\ handler = "update"
  /\ "get_folder" \in completed_tools
  /\ Len(resolverCalls) = Cardinality(AssociationEntries)
  /\ Len(resolverCalls) >= 3
  /\ Logged({"send_tool_call"}, {"main"}) # {}

\* ------------------------------------------- the hit of the tool client
\* C36: in update_conversation the tool client of the chosen tool is built
\* from the first search hit, and the tool_hit of the verification_required
\* payload is the first search hit, whichever hit defines the chosen tool:
\* the token is asked for the first hit and a request for the chosen tool
\* is sent only when the catalog of the first hit's integration has it.
C36_FirstHitServesChosenTool ==
  handler = "update" =>
    /\ \A k \in SetupsIn({"main"}) : setups[k].hit = hits[1]
    /\ \A c \in Logged({"clerk"}, {"main"}) : calls[c].tool = hits[1]
    /\ \A c \in Logged({"tool_http"}, {"main"}) :
          /\ calls[c].tool = chosen
          /\ chosen \in Catalog(Index[hits[1]].api_name)
    /\ response.kind = "verification" =>
          held.tool_hit = hits[1] /\ held.tool_name = chosen

C36_Witness ==
  /\ Answered
  /\ WasChosen
  /\ chosen # hits[1]
  /\ \E k \in SetupsIn({"main"}) : setups[k].hit = hits[1]
  /\ \E c \in Logged({"tool_http"}, {"main"}) : calls[c].tool = chosen

\* ------------------------------------ confirm_tool_call, the messages
InvalidMessages ==
  handler = "confirm" /\ ~MessagesValid(request.messages)

SentAndReturned ==
  /\ Logged({"send_tool_call"}, {"confirm"}) # {}
  /\ Logged(RaiseKinds, {"confirm"}) = {}

\* C37: confirm_tool_call validates the messages of the request only after
\* the tool client is built and the tool call is sent: a request whose
\* messages are empty, or whose first message has no role, is answered 400
\* exactly when its tool call was sent and returned, and no summarization
\* follows.
C37_ValidatesAfterSend ==
  InvalidMessages =>
    /\ pc # "c_summarize"
    /\ Logged({"llm"}, {"summary"}) = {}
    /\ (Answered /\ response.status = 400) =>
          /\ \E k \in SetupsIn({"confirm"}) : setups[k].outcome = "ok"
          /\ SentAndReturned
    /\ (Answered /\ SentAndReturned) =>
          response = [kind |-> "http_error", status |-> 400]

C37_Witness ==
  /\ Answered
  /\ InvalidMessages
  /\ request.messages = <<>>
  /\ response.status = 400
  /\ \E c \in Logged({"tool_http"}, {"confirm"}) : calls[c].tool = request.tool_name

\* ------------------------------- confirm_tool_call, what it executes
\* C38: confirm_tool_call consults no record of the payloads that were
\* issued: for every request it builds the tool client from the request's
\* tool_hit and, when the client is built, calls the request's tool_name,
\* whether or not a verification_required payload for that call was ever
\* returned.
C38_ExecutesWhatTheRequestNames ==
  handler = "confirm" =>
    /\ \A k \in SetupsIn({"confirm"}) : setups[k].hit = request.tool_hit
    /\ \A c \in Logged({"clerk"}, {"confirm"}) : calls[c].tool = request.tool_hit
    /\ \A c \in Logged({"send_tool_call", "tool_http"}, {"confirm"}) :
          calls[c].tool = request.tool_name
    /\ Answered => SetupsIn({"confirm"}) # {}
    /\ (Answered /\ \E k \in SetupsIn({"confirm"}) : setups[k].outcome = "ok") =>
          Logged({"send_tool_call"}, {"confirm"}) # {}

C38_Witness ==
  /\ Answered
  /\ handler = "confirm"
  /\ held = NoPayload
  /\ HitAction(request.tool_name) = "WRITE"
  /\ MessagesValid(request.messages)
  /\ response.kind = "summary"
  /\ \E c \in Logged({"tool_http"}, {"confirm"}) : calls[c].tool = request.tool_name

\* ------------------------------------- setup_tool_client, transports
\* ClerkClient.__init__: base_url of its httpx.AsyncClient
ClerkUrl == "https://api.clerk.com/v1"

\* The ClerkClient belongs to no HttpClient object.
NoInstance == 0

setupHostVars ==
  << pc, handler, reqNo, request, turnVars, messages, tool_result, lastHttp,
     response, calls, resolverCalls, confirmReceived, filterVars, clientVars,
     schemaRun, cleanRun, sendRun, serviceVars >>

\* Calls of setup_tool_client that are past the catalog file and wait for
\* the token.
AwaitingToken == {t \in Tasks : tasks[t].pc = "token"}

\* Mutant: async with ClerkClient() as clerk_client around the token call
\* -- the transport is closed when the block is left.
AfterTokenCloses(ts, k) == [ts EXCEPT ![k].closed = TRUE]

\* The token call is over, by return or by an exception: clerk_client is
\* not used again and nothing is awaited on it.
AfterToken(ts, k) == ts

\* The catalog file is read; when that raises the call ends before any
\* client exists.  Otherwise clerk_client = ClerkClient() constructs a
\* transport and the token is awaited.
OpenCatalog(t, url) ==
  /\ tasks[t].pc = "idle"
  /\ Len(setups) + Cardinality(AwaitingToken) < MaxInstances
  /\ \/ /\ setups' = Append(setups, Setup("setup", url, "catalog_missing"))
        /\ UNCHANGED << transports, tasks >>
     \/ /\ transports' = Append(transports, AsyncClient(ClerkUrl, NoInstance))
        /\ tasks' = [tasks EXCEPT ![t] = [pc |-> "token", inst |-> Len(transports) + 1]]
        /\ UNCHANGED setups
  /\ UNCHANGED << http_clients, setupHostVars >>

\* get_user_oauth_access_token returned or raised.  With a token the
\* HttpClient of the hit's base URL is constructed and get_client is called
\* on it; an empty list is the 401, anything else the exception of the call.
GetToken(t, url) ==
  /\ tasks[t].pc = "token"
  /\ transports' = AfterToken(transports, tasks[t].inst)
  /\ \E o \in SetupOutcomes \ {"catalog_missing"} :
       /\ setups' = Append(setups, Setup("setup", url, o))
       /\ IF o = "ok"
            THEN /\ http_clients' = Append(http_clients, HttpClientNew(url))
                 /\ StartCall(t, Len(http_clients) + 1)
            ELSE /\ tasks' = [tasks EXCEPT ![t] = [pc |-> "idle", inst |-> 0]]
                 /\ UNCHANGED http_clients
  /\ UNCHANGED setupHostVars

\* The rest of setup_tool_client is get_client on the new object; the
\* ToolHttpClient built around the transport is returned to the handler,
\* which calls send_tool_call on it and nothing else.
NextSetup ==
  \/ \E t \in Tasks, url \in BaseUrls : OpenCatalog(t, url)
  \/ \E t \in Tasks, url \in BaseUrls : GetToken(t, url)
  \/ \E t \in Tasks : Acquire(t)
  \/ \E t \in Tasks : CreateOrReuse(t)
  \/ \E t \in Tasks : Release(t)

SpecSetup == Init /\ [][NextSetup]_vars

ClerkTransports == {k \in DOMAIN transports : transports[k].base_url = ClerkUrl}

ToolTransports == DOMAIN transports \ ClerkTransports

SetupsWith(outcomes) == {k \in DOMAIN setups : setups[k].outcome \in outcomes}

\* Every call of setup_tool_client that was started has returned or raised.
SetupsOver == \A t \in Tasks : tasks[t].pc = "idle"

\* C39, as stated: nothing closes the transports of setup_tool_client, and
\* each call of setup_tool_client creates a new ClerkClient transport and a
\* new tool transport.
C39_EachCallCreatesBoth ==
  /\ \A k \in DOMAIN transports : ~transports[k].closed
  /\ SetupsOver =>
        /\ Cardinality(ClerkTransports) = Len(setups)
        /\ Cardinality(ToolTransports) = Len(setups)

\* C39, amended: nothing closes the transports of setup_tool_client.  A
\* call that gets past the catalog file creates a new ClerkClient
\* transport, a call that also obtains a token creates a new tool
\* transport, and whatever a call created is open afterwards, whether the
\* call returned or raised.
C39_NothingCloses ==
  /\ \A k \in DOMAIN transports : ~transports[k].closed
  /\ \A n \in DOMAIN http_clients : Cardinality(Owned(n)) <= 1
  /\ SetupsOver =>
        /\ Cardinality(ClerkTransports) =
              Cardinality(SetupsWith(SetupOutcomes \ {"catalog_missing"}))
        /\ Cardinality(ToolTransports) = Cardinality(SetupsWith({"ok"}))
        /\ \A n \in DOMAIN http_clients : Cardinality(Owned(n)) = 1

C39_Witness ==
  /\ SetupsOver
  /\ SetupsWith({"ok"}) # {}
  /\ SetupsWith({"no_token", "clerk_error"}) # {}
  /\ Cardinality(ClerkTransports) = 2
  /\ Cardinality(ToolTransports) = 1
  /\ \A k \in DOMAIN transports : ~transports[k].closed

Users == {"user_a", "user_b"}

TurnHits ==
  { << "post_message", "list_channels" >>, << "add_track" >>, << "list_channels" >> }

TurnInput(kind, h, choice, resolves, hit, name, msgs) ==
  [kind |-> kind, hits |-> h, choice |-> choice, resolves |-> resolves,
   tool_hit |-> hit, tool_name |-> name, messages |-> msgs]

TurnInputs ==
  { TurnInput("update", h, c, r, NoHit, NoTool, << UserInput >>) :
      h \in TurnHits, c \in {"post_message", "list_channels", NoTool},
      r \in BOOLEAN }
  \cup { TurnInput("confirm", <<>>, NoTool, FALSE, h, "post_message", m) :
           h \in {"post_message", "create_playlist"}, m \in {<<>>, << UserInput >>} }

NoAnswer == [kind |-> "none", status |-> 0, tool_hit |-> NoHit, tool_name |-> NoTool]

Answer(kind, status, hit, name) ==
  [kind |-> kind, status |-> status, tool_hit |-> hit, tool_name |-> name]

\* The locals of a handler call: write_tools = [], messages = [],
\* completed_tools = [] are created in the call.
TurnNew(input) ==
  [input |-> input, pc |-> "start", hits |-> <<>>, i |-> 1, j |-> 1,
   write_tools |-> {}, completed_tools |-> {}, messages |-> <<>>,
   chosen |-> NoTool, calls |-> <<>>, response |-> NoAnswer,
   overlapped |-> FALSE]

turnHostVars ==
  << pc, handler, reqNo, request, turnVars, messages, tool_result, lastHttp,
     response, calls, setups, resolverCalls, confirmReceived, filterVars,
     clientVars, schemaRun, cleanRun, sendRun, poolVars, managers, syncRun >>

InFlight(u) ==
  \E v \in DOMAIN turns : v # u /\ turns[v].pc \notin {"start", "done"}

SetTurn(u, r) ==
  /\ turns' = [turns EXCEPT ![u] = [r EXCEPT !.overlapped = @ \/ InFlight(u)]]
  /\ UNCHANGED turnHostVars

Arrive(u, input) ==
  /\ u \notin DOMAIN turns
  /\ turns' = [v \in DOMAIN turns \cup {u} |->
                 IF v = u THEN TurnNew(input) ELSE turns[v]]
  /\ UNCHANGED turnHostVars

\* Mutant: completed_tools is a list of the module, shared by the turns.
MemoOfModule(ts, u) == UNION {ts[v].completed_tools : v \in DOMAIN ts}

\* completed_tools of the call
Memo(ts, u) == ts[u].completed_tools

\* integrations, embedding and search; then the locals of the loop
AfterSearch(r) ==
  [r EXCEPT !.calls = << Call("db", "main", NoTool),
                         Call("embedding", "main", NoTool),
                         Call("search", "main", NoTool) >>,
            !.hits = r.input.hits,
            !.pc = "u_hit"]

AfterClassify(r) ==
  [r EXCEPT !.write_tools = IF HitAction(r.hits[r.i]) = "WRITE"
                              THEN @ \cup {r.hits[r.i]} ELSE @,
            !.j = 1,
            !.pc = "u_assoc"]

\* One association of the hit: skipped when its parent is memoized, else
\* the resolver is called; after the last one the loop takes the next hit.
AfterAssoc(ts, u) ==
  LET r == ts[u]
      assocs == Associations(r.hits[r.i])
  IN  IF r.j > Len(assocs)
        THEN [r EXCEPT !.i = @ + 1, !.pc = "u_hit"]
        ELSE LET p == assocs[r.j].parent_tool_name
             IN  IF AlreadyResolved(p, Memo(ts, u))
                   THEN [r EXCEPT !.j = @ + 1]
                   ELSE [r EXCEPT
                          !.calls = Append(@, Call("search", "assoc", p)),
                          !.messages = IF r.input.resolves
                                         THEN Append(@, AssocResult) ELSE @,
                          !.completed_tools = IF r.input.resolves
                                                THEN @ \cup {p} ELSE @,
                          !.j = @ + 1]

\* The tool-offer call and the gate: no tool, a WRITE tool, or the setup of
\* the tool client from the first hit.
AfterOffer(r) ==
  LET c == IF r.input.choice \in Range(r.hits) THEN r.input.choice ELSE NoTool
      offered == Append(r.calls, Call("llm", "offer", NoTool))
  IN  IF c = NoTool
        THEN [r EXCEPT !.calls = offered, !.pc = "done",
                       !.response = Answer("completion", 200, NoHit, NoTool)]
        ELSE IF WriteFlag(c, r.write_tools)
          THEN [r EXCEPT !.calls = offered, !.chosen = c, !.pc = "done",
                         !.response = Answer("verification", 200, r.hits[1], c)]
          ELSE [r EXCEPT !.calls = Append(offered, Call("clerk", "main", r.hits[1])),
                         !.chosen = c, !.pc = "u_send"]

AfterSend(r) ==
  IF r.chosen \in Catalog(Index[r.hits[1]].api_name)
    THEN [r EXCEPT !.calls = @ \o << Call("send_tool_call", "main", r.chosen),
                                     Call("tool_http", "main", r.chosen) >>,
                   !.messages = @ \o << AssistantToolCall, ToolResultMsg,
                                        SummaryInstruction >>,
                   !.pc = "summarize"]
    ELSE [r EXCEPT !.calls = Append(@, Call("send_tool_call", "main", r.chosen)),
                   !.pc = "done",
                   !.response = Answer("error_completion", 200, NoHit, NoTool)]

AfterSummarize(r) ==
  [r EXCEPT !.calls = Append(@, Call("llm", "summary", NoTool)),
            !.pc = "done",
            !.response = Answer("summary", 200, NoHit, NoTool)]

AfterConfirmSetup(r) ==
  [r EXCEPT !.calls = << Call("clerk", "confirm", r.input.tool_hit) >>,
            !.pc = "c_send"]

\* send_tool_call, then the validation of the messages
AfterConfirmSend(r) ==
  LET name == r.input.tool_name
      sent == r.calls \o << Call("send_tool_call", "confirm", name),
                            Call("tool_http", "confirm", name) >>
  IN  IF name \notin Catalog(Index[r.input.tool_hit].api_name)
        THEN [r EXCEPT !.calls = Append(@, Call("send_tool_call", "confirm", name)),
                       !.pc = "done",
                       !.response = Answer("error_completion", 200, NoHit, NoTool)]
        ELSE IF MessagesValid(r.input.messages)
          THEN [r EXCEPT !.calls = sent,
                         !.messages = r.input.messages
                                        \o << AssistantToolCall, ToolResultMsg,
                                              AssistantResultText, SummaryInstruction >>,
                         !.pc = "summarize"]
          ELSE [r EXCEPT !.calls = sent, !.pc = "done",
                         !.response = Answer("http_error", 400, NoHit, NoTool)]

\* The next step of the turn of u among the turns ts.
TurnStep(ts, u) ==
  LET r == ts[u]
  IN  CASE r.pc = "start" /\ r.input.kind = "update" -> AfterSearch(r)
        [] r.pc = "start" /\ r.input.kind = "confirm" -> AfterConfirmSetup(r)
        [] r.pc = "u_hit" /\ r.i <= Len(r.hits) -> AfterClassify(r)
        [] r.pc = "u_hit" /\ r.i > Len(r.hits) -> AfterOffer(r)
        [] r.pc = "u_assoc" -> AfterAssoc(ts, u)
        [] r.pc = "u_send" -> AfterSend(r)
        [] r.pc = "c_send" -> AfterConfirmSend(r)
        [] r.pc = "summarize" -> AfterSummarize(r)
        [] OTHER -> r

TurnSearch(u) ==
  /\ turns[u].pc = "start"
  /\ turns[u].input.kind = "update"
  /\ SetTurn(u, AfterSearch(turns[u]))

TurnClassify(u) ==
  /\ turns[u].pc = "u_hit"
  /\ turns[u].i <= Len(turns[u].hits)
  /\ SetTurn(u, AfterClassify(turns[u]))

TurnAssoc(u) ==
  /\ turns[u].pc = "u_assoc"
  /\ SetTurn(u, AfterAssoc(turns, u))

TurnOffer(u) ==
  /\ turns[u].pc = "u_hit"
  /\ turns[u].i > Len(turns[u].hits)
  /\ SetTurn(u, AfterOffer(turns[u]))

TurnSend(u) ==
  /\ turns[u].pc = "u_send"
  /\ SetTurn(u, AfterSend(turns[u]))

TurnSummarize(u) ==
  /\ turns[u].pc = "summarize"
  /\ SetTurn(u, AfterSummarize(turns[u]))

TurnConfirmSetup(u) ==
  /\ turns[u].pc = "start"
  /\ turns[u].input.kind = "confirm"
  /\ SetTurn(u, AfterConfirmSetup(turns[u]))

TurnConfirmSend(u) ==
  /\ turns[u].pc = "c_send"
  /\ SetTurn(u, AfterConfirmSend(turns[u]))

NextTurns ==
  \/ \E u \in Users, input \in TurnInputs : Arrive(u, input)
  \/ \E u \in DOMAIN turns : TurnSearch(u)
  \/ \E u \in DOMAIN turns : TurnClassify(u)
  \/ \E u \in DOMAIN turns : TurnAssoc(u)
  \/ \E u \in DOMAIN turns : TurnOffer(u)
  \/ \E u \in DOMAIN turns : TurnSend(u)
  \/ \E u \in DOMAIN turns : TurnSummarize(u)
  \/ \E u \in DOMAIN turns : TurnConfirmSetup(u)
  \/ \E u \in DOMAIN turns : TurnConfirmSend(u)

SpecTurns == Init /\ [][NextTurns]_vars

\* The turn run alone, from its first step to its response: the same steps
\* with no other turn in the process.
RECURSIVE RunAlone(_)
RunAlone(r) ==
  IF r.pc = "done"
    THEN r
    ELSE RunAlone(TurnStep([v \in {"alone"} |-> r], "alone"))

====
